---- MODULE Spec2Model ----
(***************************************************************************)
(* Model of the test-session routes of the quiz application                *)
(* (src/routes/test_routes.py) over the tables of src/db.py.               *)
(*                                                                         *)
(* Python strings are sequences of one-character strings, so that strip,   *)
(* split, isdigit, int and the substring tests are computed as the code    *)
(* computes them.  A nullable column is a sequence of length 0 (NULL) or   *)
(* 1 (the value).  An HTTP outcome is a record with a status field.        *)
(***************************************************************************)
EXTENDS Integers, Sequences, FiniteSets, Bags, TLC

\* users, decks, cards, test_sessions: the rows of the tables of db.py
\* deck_likes, deck_favorites: the rows of the two join tables of db.py, as
\*   bags of (user_id, deck_id) rows
\* clock: what datetime.now() reads, in whole seconds
\* last: the request the server is answering and its response, or Idle
\* calls: the requests that run concurrently, each between its read of the
\*   store and its write
\* issued: the tokens the server has handed out, which clients can present
VARIABLES users, decks, cards, test_sessions, deck_likes, deck_favorites, clock, last, calls,
          issued

vars == <<users, decks, cards, test_sessions, deck_likes, deck_favorites, clock, last, calls,
          issued>>

(***************************************************************************)
(* Bounds of the model.                                                    *)
(***************************************************************************)
\* number of distinct values uuid4() can draw
MaxUuids == 2

\* the latest instant datetime.now() reads in the specification with a clock
MaxClock == 2

\* number of sessions started in the specification with a clock
MaxTimedSessions == 1

\* number of requests that run concurrently
MaxCalls == 3

\* number of like and favorite requests that run concurrently
MaxDeckCalls == 2

\* the largest id a card is given
MaxCardId == 4

None == <<>>
Some(v) == <<v>>
IsNone(x) == x = <<>>
Val(x) == x[1]

(***************************************************************************)
(* Strings.                                                                *)
(***************************************************************************)
\* the character U+00B2 (superscript two): str.isdigit() accepts it, int() does not
Sup2 == "sup2"

DecimalChars == <<"0", "1", "2", "3", "4", "5", "6", "7", "8", "9">>

IsDecimalChar(c) == \E i \in 1..10 : DecimalChars[i] = c

DecimalValue(c) == (CHOOSE i \in 1..10 : DecimalChars[i] = c) - 1

\* str.isdigit() for one character
IsDigitChar(c) == IsDecimalChar(c) \/ c = Sup2

\* str.isdigit(): non-empty and every character is a digit
isdigit(s) == Len(s) > 0 /\ \A i \in 1..Len(s) : IsDigitChar(s[i])

\* int(s) succeeds on a string of decimal characters
IntParses(s) == Len(s) > 0 /\ \A i \in 1..Len(s) : IsDecimalChar(s[i])

RECURSIVE int(_)
int(s) == IF Len(s) = 0 THEN 0
          ELSE 10 * int(SubSeq(s, 1, Len(s) - 1)) + DecimalValue(s[Len(s)])

\* characters str.strip() removes
Whitespace == {" ", "\t", "\n", "\r", "\f"}

\* characters with ord(c) < 32
ControlChars == {"\t", "\n", "\r", "\f"}

RECURSIVE lstrip(_)
lstrip(s) == IF Len(s) > 0 /\ s[1] \in Whitespace THEN lstrip(Tail(s)) ELSE s

RECURSIVE rstrip(_)
rstrip(s) == IF Len(s) > 0 /\ s[Len(s)] \in Whitespace
             THEN rstrip(SubSeq(s, 1, Len(s) - 1)) ELSE s

strip(s) == rstrip(lstrip(s))

UpperChars == <<"A", "B", "H", "R">>
LowerChars == <<"a", "b", "h", "r">>

LowerChar(c) == IF \E i \in 1..Len(UpperChars) : UpperChars[i] = c
                THEN LowerChars[CHOOSE i \in 1..Len(UpperChars) : UpperChars[i] = c]
                ELSE c

lower(s) == [i \in 1..Len(s) |-> LowerChar(s[i])]

\* f in s, for strings
Contains(s, f) == \E i \in 1..(Len(s) - Len(f) + 1) : SubSeq(s, i, i + Len(f) - 1) = f

\* s.split("_")
RECURSIVE split(_)
split(s) == IF \A i \in 1..Len(s) : s[i] # "_" THEN <<s>>
            ELSE LET i == CHOOSE k \in 1..Len(s) :
                               s[k] = "_" /\ \A j \in 1..(k - 1) : s[j] # "_"
                 IN <<SubSeq(s, 1, i - 1)>> \o split(SubSeq(s, i + 1, Len(s)))

(***************************************************************************)
(* sanitize_string: the stripped value, or the 400 it raises.              *)
(***************************************************************************)
forbidden == {<<";">>, <<"-", "-">>, <<"'">>, <<"\"">>, <<"/", "*">>,
              <<"*", "/">>, <<"x", "p", "_">>}

sanitize_string(raw_value) ==
    LET sanitized == strip(raw_value) IN
    IF \E i \in 1..Len(sanitized) : sanitized[i] \in ControlChars
    THEN [status |-> 400, value |-> <<>>]
    ELSE IF \E f \in forbidden : Contains(sanitized, f)
    THEN [status |-> 400, value |-> <<>>]
    ELSE [status |-> 200, value |-> sanitized]

(***************************************************************************)
(* Tables (src/db.py) and the identifiers requests carry.                  *)
(***************************************************************************)
UserIds == {1, 2}

HexChars == <<"a", "b", "c", "d", "e", "f">>

\* the values str(uuid.uuid4()) can take
Uuids == {<<HexChars[i]>> : i \in 1..MaxUuids}

\* the users have registered and have not logged in yet
InitUsers == {[id |-> 1, email |-> "u1@example.com", hashed_password |-> [hash_of |-> "p1"],
               refresh_token |-> None],
              [id |-> 2, email |-> "u2@example.com", hashed_password |-> [hash_of |-> "p2"],
               refresh_token |-> None]}

\* deck 1: public, two cards; deck 2: private, one card; deck 3: public, no card
\* created_at is in seconds on the model's clock: decks 1 and 2 were created
\* within one second, deck 3 later, all before the clock starts
InitDecks == {[id |-> 1, title |-> <<"H", "a">>, tags |-> Some(<<"x">>),
               visibility |-> "public", owner_id |-> 1, created_at |-> -2],
              [id |-> 2, title |-> <<"H", "b">>, tags |-> Some(<<"x">>),
               visibility |-> "private", owner_id |-> 1, created_at |-> -2],
              [id |-> 3, title |-> <<"R">>, tags |-> None,
               visibility |-> "public", owner_id |-> 2, created_at |-> -1]}

\* a JSON string, as an element of a JSON list
JStr(v) == [str |-> v]
IsJStr(e) == DOMAIN e = {"str"}

Card1 == [id |-> 1, deck_id |-> 1, question |-> "What is A?", answer |-> <<"A">>,
          qtype |-> "fillups", options_json |-> None, visibility |-> "public"]
Card2 == [id |-> 2, deck_id |-> 1, question |-> "Pick b", answer |-> <<" ", "B">>,
          qtype |-> "mcq", options_json |-> Some(<<JStr("A"), JStr("B"), JStr("H"), JStr("R")>>),
          visibility |-> "public"]
Card3 == [id |-> 3, deck_id |-> 2, question |-> "Match", answer |-> <<"H">>,
          qtype |-> "match",
          options_json |-> Some(<<[left |-> "a", right |-> "A"], [left |-> "b", right |-> "B"],
                                  [left |-> "h", right |-> "H"], [left |-> "r", right |-> "R"]>>),
          visibility |-> "private"]

\* Query(...).first(): NULL or one matching row
first(rows) == IF rows = {} THEN None ELSE Some(CHOOSE r \in rows : TRUE)

DeckById(deck_id) == first({d \in decks : d.id = deck_id})
CardById(card_id) == first({c \in cards : c.id = card_id})
UserById(user_id) == first({u \in users : u.id = user_id})
CardsOfDeck(deck_id) == {c \in cards : c.deck_id = deck_id}
SessionById(session_id) == first({s \in test_sessions : s.session_id = session_id})

\* the orders random.shuffle can leave a list of the rows in
Shuffles(rows) == {o \in [1..Cardinality(rows) -> rows] :
                      \A i, j \in 1..Cardinality(rows) : o[i] = o[j] => i = j}

HTTPException(status_code, detail) == [status |-> status_code, body |-> [detail |-> detail]]

\* the requests that can be under way at once
CallIds == 1..MaxCalls

\* a request slot with no request under way
IdleCall == [pc |-> "idle"]

\* no request is being answered
Idle == [op |-> "idle", user |-> 0, session_id |-> <<>>, deck_id |-> 0,
         status |-> 0, body |-> [detail |-> ""]]

\* the request being answered and its response
Request(op, user, session_id, deck_id, r) ==
    [op |-> op, user |-> user, session_id |-> session_id, deck_id |-> deck_id,
     status |-> r.status, body |-> r.body]

(***************************************************************************)
(* POST /tests/start                                                       *)
(***************************************************************************)
\* start_forbidden with the visibility test dropped
start_forbidden_never(deck, current_user) == FALSE

\* line 86: the caller may not use the deck
start_forbidden(deck, current_user) ==
    deck.visibility = "private" /\ deck.owner_id # current_user

\* no_cards with the test dropped
no_cards_never(listed) == FALSE

\* line 94: the deck has nothing to test
no_cards(listed) == Len(listed) = 0

\* card_data passing the whole card on
card_data_with_answer(card) ==
    [id |-> card.id, question |-> card.question, qtype |-> card.qtype,
     options |-> card.options_json, answer |-> card.answer]

\* lines 105-110: what start returns of one card
card_data(card) ==
    [id |-> card.id, question |-> card.question, qtype |-> card.qtype,
     options |-> card.options_json]

\* lines 115-125: the row start inserts
new_session(session_id, deck_id, current_user, now, n_cards) ==
    [id |-> Cardinality(test_sessions) + 1,
     session_id |-> session_id,
     deck_id |-> deck_id,
     user_id |-> current_user,
     started_at |-> now,
     completed_at |-> None,
     total_cards |-> n_cards,
     correct_answers |-> None,
     total_time |-> None,
     answers_json |-> None]

\* insert_session_ok without the unique constraint
insert_session_ok_always(row) == TRUE

\* db.py line 60: session_id is unique, so the INSERT of a duplicate fails
insert_session_ok(row) == \A s \in test_sessions : s.session_id # row.session_id

\* the outcome of start: the response and the rows of test_sessions after it;
\* shuffled is the order random.shuffle left the cards in, session_id the
\* uuid4 drawn, commit_ok whether the store accepts the commit
start_test_session(current_user, deck_id, shuffled, session_id, commit_ok) ==
    LET deck == DeckById(deck_id)
        row == new_session(session_id, deck_id, current_user, clock, Len(shuffled))
    IN
    IF IsNone(deck)
    THEN [resp |-> HTTPException(404, "Deck not found"), rows |-> test_sessions]
    ELSE IF start_forbidden(Val(deck), current_user)
    THEN [resp |-> HTTPException(403, "Cannot access private deck"), rows |-> test_sessions]
    ELSE IF no_cards(shuffled)
    THEN [resp |-> HTTPException(400, "Deck has no cards to test"), rows |-> test_sessions]
    ELSE IF ~(commit_ok /\ insert_session_ok(row))
    THEN [resp |-> HTTPException(500, "Failed to create test session"),
          rows |-> test_sessions]
    ELSE [resp |-> [status |-> 200,
                    body |-> [session_id |-> session_id,
                              deck_id |-> deck_id,
                              deck_title |-> Val(deck).title,
                              deck_owner |-> Val(UserById(Val(deck).owner_id)).email,
                              total_cards |-> Len(shuffled),
                              cards |-> [i \in 1..Len(shuffled) |-> card_data(shuffled[i])]]],
          rows |-> test_sessions \cup {row}]

\* deck ids a request may name: the three decks and one that does not exist
DeckIdInputs == {1, 2, 3, 9}

Start ==
    /\ last = Idle
    /\ \E current_user \in UserIds, deck_id \in DeckIdInputs, session_id \in Uuids,
          commit_ok \in BOOLEAN :
          \E shuffled \in Shuffles(CardsOfDeck(deck_id)) :
             LET r == start_test_session(current_user, deck_id, shuffled, session_id, commit_ok)
             IN /\ test_sessions' = r.rows
                /\ last' = Request("start", current_user, <<>>, deck_id, r.resp)
    /\ UNCHANGED <<issued, users, decks, cards, clock, deck_likes, deck_favorites, calls>>

(***************************************************************************)
(* validate_session_id: the row, or the error raised.                      *)
(***************************************************************************)
\* validate_session_id without the test of line 172
validate_session_id_any_owner(session_id, current_user) ==
    LET test_session == SessionById(session_id) IN
    IF Len(session_id) = 0
    THEN [status |-> 400, detail |-> "Invalid session_id", row |-> None]
    ELSE IF IsNone(test_session)
    THEN [status |-> 404, detail |-> "Session not found", row |-> None]
    ELSE [status |-> 200, detail |-> "", row |-> test_session]

\* validate_session_id answering 404 for a session of another user
validate_session_id_hiding_owner(session_id, current_user) ==
    LET test_session == SessionById(session_id) IN
    IF Len(session_id) = 0
    THEN [status |-> 400, detail |-> "Invalid session_id", row |-> None]
    ELSE IF IsNone(test_session) \/ Val(test_session).user_id # current_user
    THEN [status |-> 404, detail |-> "Session not found", row |-> None]
    ELSE [status |-> 200, detail |-> "", row |-> test_session]

validate_session_id(session_id, current_user) ==
    LET test_session == SessionById(session_id) IN
    IF Len(session_id) = 0
    THEN [status |-> 400, detail |-> "Invalid session_id", row |-> None]
    ELSE IF IsNone(test_session)
    THEN [status |-> 404, detail |-> "Session not found", row |-> None]
    ELSE IF Val(test_session).user_id # current_user
    THEN [status |-> 403, detail |-> "Session does not belong to current user", row |-> None]
    ELSE [status |-> 200, detail |-> "", row |-> test_session]

(***************************************************************************)
(* POST /tests/submit-answer                                               *)
(***************************************************************************)
\* is_correct comparing the texts as they are
is_correct_exact(sanitized_user_answer, card) == sanitized_user_answer = card.answer

\* line 266
is_correct(sanitized_user_answer, card) ==
    lower(sanitized_user_answer) = lower(strip(card.answer))

\* submit_test_answer appending the answer to the session's log
submit_test_answer_recording(current_user, session_id, card_id, user_answer, time_taken) ==
    LET v == validate_session_id(session_id, current_user)
        entry == [card_id |-> card_id, user_answer |-> user_answer, is_correct |-> FALSE,
                  time_taken |-> time_taken, options |-> None]
        log == IF IsNone(Val(v.row).answers_json) THEN <<>> ELSE Val(Val(v.row).answers_json)
    IN
    IF v.status # 200
    THEN [resp |-> HTTPException(v.status, v.detail), rows |-> test_sessions]
    ELSE [resp |-> [status |-> 200,
                    body |-> [card_id |-> card_id, is_correct |-> FALSE,
                              correct_answer |-> <<>>, user_answer |-> user_answer]],
          rows |-> (test_sessions \ {Val(v.row)})
                   \cup {[Val(v.row) EXCEPT !.answers_json = Some(Append(log, entry))]}]

\* submit_test_answer marking the session completed once it was answered
submit_test_answer_completing(current_user, session_id, card_id, user_answer, time_taken) ==
    LET v == validate_session_id(session_id, current_user) IN
    IF v.status # 200
    THEN [resp |-> HTTPException(v.status, v.detail), rows |-> test_sessions]
    ELSE [resp |-> [status |-> 200,
                    body |-> [card_id |-> card_id, is_correct |-> FALSE,
                              correct_answer |-> <<>>, user_answer |-> user_answer]],
          rows |-> (test_sessions \ {Val(v.row)})
                   \cup {[Val(v.row) EXCEPT !.completed_at = Some(clock)]}]

submit_test_answer(current_user, session_id, card_id, user_answer, time_taken) ==
    LET v == validate_session_id(session_id, current_user)
        sanitized == sanitize_string(user_answer)
        card == CardById(card_id)
    IN
    IF v.status # 200
    THEN [resp |-> HTTPException(v.status, v.detail), rows |-> test_sessions]
    ELSE IF card_id <= 0
    THEN [resp |-> HTTPException(400, "Invalid card_id"), rows |-> test_sessions]
    ELSE IF sanitized.status # 200
    THEN [resp |-> HTTPException(400, "Invalid input"), rows |-> test_sessions]
    ELSE IF ~IsNone(time_taken) /\ Val(time_taken) < 0
    THEN [resp |-> HTTPException(400, "Invalid time_taken"), rows |-> test_sessions]
    ELSE IF IsNone(card)
    THEN [resp |-> HTTPException(404, "Card not found"), rows |-> test_sessions]
    ELSE [resp |-> [status |-> 200,
                    body |-> [card_id |-> card_id,
                              is_correct |-> is_correct(sanitized.value, Val(card)),
                              correct_answer |-> Val(card).answer,
                              user_answer |-> sanitized.value]],
          rows |-> test_sessions]

(***************************************************************************)
(* POST /tests/complete                                                    *)
(***************************************************************************)
\* An ISO-8601 text is modelled as <<"T", d>> (the naive instant d seconds on
\* the model's clock) or <<"T", d, "Z">> (the same with a UTC offset); isoparse
\* raises on every other text.
isoparse(s) ==
    IF Len(s) \in {2, 3} /\ s[1] = "T" /\ IsDecimalChar(s[2]) /\ (Len(s) = 3 => s[3] = "Z")
    THEN [ok |-> TRUE, seconds |-> DecimalValue(s[2]), aware |-> Len(s) = 3]
    ELSE [ok |-> FALSE, seconds |-> 0, aware |-> FALSE]

\* lines 291-307: the session's deck id, or the error complete raises
resolve_session(session_id, current_user) ==
    LET v == validate_session_id(session_id, current_user)
        parts == split(session_id)
    IN
    IF v.status = 200
    THEN [status |-> 200, detail |-> "", deck_id |-> Val(v.row).deck_id]
    ELSE IF v.status = 404
    THEN IF Len(parts) >= 3 /\ isdigit(parts[2])
         THEN IF ~IntParses(parts[2])
              THEN [status |-> 500, detail |-> "ValueError", deck_id |-> 0]
              ELSE IF IsNone(DeckById(int(parts[2])))
              THEN [status |-> 404, detail |-> "Deck not found", deck_id |-> 0]
              ELSE [status |-> v.status, detail |-> v.detail, deck_id |-> 0]
         ELSE [status |-> 400, detail |-> "Invalid session_id format", deck_id |-> 0]
    ELSE [status |-> v.status, detail |-> v.detail, deck_id |-> 0]

\* lines 310-315: the parsed started_at (NULL when absent), or the 400 raised
parse_started_at(started_at) ==
    IF IsNone(started_at)
    THEN [status |-> 200, dt |-> None]
    ELSE LET clean == sanitize_string(Val(started_at)) IN
         IF clean.status # 200 \/ ~isoparse(clean.value).ok
         THEN [status |-> 400, dt |-> None]
         ELSE [status |-> 200, dt |-> Some(isoparse(clean.value))]

\* lines 339-345: the options echoed with an answer
card_options(card_id) ==
    LET card == CardById(card_id) IN
    IF IsNone(card) THEN None
    ELSE IF IsNone(Val(card).options_json) THEN None
    ELSE Val(card).options_json

\* lines 332-352: the status with which one submitted answer is taken or refused
\* (TestAnswer.options is Optional[list[str]]: any other list fails validation)
answer_status(a) ==
    IF a.card_id <= 0 THEN 400
    ELSE IF sanitize_string(a.user_answer).status # 200 THEN 400
    ELSE IF ~IsNone(a.time_taken) /\ Val(a.time_taken) < 0 THEN 400
    ELSE IF ~IsNone(card_options(a.card_id))
            /\ \E i \in 1..Len(Val(card_options(a.card_id))) :
                  ~IsJStr(Val(card_options(a.card_id))[i])
    THEN 500
    ELSE 200

\* lines 346-352
answer_detail(a) ==
    [card_id |-> a.card_id,
     user_answer |-> sanitize_string(a.user_answer).value,
     is_correct |-> a.is_correct,
     time_taken |-> a.time_taken,
     options |-> card_options(a.card_id)]

RECURSIVE SumSeq(_)
SumSeq(q) == IF Len(q) = 0 THEN 0 ELSE Head(q) + SumSeq(Tail(q))

\* round(x, 2) of the percentage correct/total, in hundredths of a percent
accuracy_x100(correct, total) ==
    IF total > 0 THEN (2 * correct * 10000 + total) \div (2 * total) ELSE 0

\* count_correct counting every answer
count_correct_all(answer_details) == Len(answer_details)

\* line 356
count_correct(answer_details) ==
    SumSeq([i \in 1..Len(answer_details) |-> IF answer_details[i].is_correct THEN 1 ELSE 0])

\* total_time_of without the sum of the answers' times
total_time_of_no_fallback(started_at_dt, completed_at, answer_details) ==
    IF ~IsNone(started_at_dt) THEN completed_at - Val(started_at_dt).seconds ELSE 0

\* lines 359-363
total_time_of(started_at_dt, completed_at, answer_details) ==
    IF ~IsNone(started_at_dt)
    THEN completed_at - Val(started_at_dt).seconds
    ELSE SumSeq([i \in 1..Len(answer_details) |->
                    IF IsNone(answer_details[i].time_taken) THEN 0
                    ELSE Val(answer_details[i].time_taken)])

\* lines 370-373: the row as the completion writes it
completed_row(row, completed_at, correct_answers, total_time, answer_details) ==
    [row EXCEPT !.completed_at = Some(completed_at),
                !.correct_answers = Some(correct_answers),
                !.total_time = Some(total_time),
                !.answers_json = Some(answer_details)]

\* what the store does to the completion write (lines 374-375): nothing, or
\* commit raises, or commit succeeds and refresh raises
DbFaults == {"none", "commit", "refresh"}

\* write_completion with a commit that fails after the row was changed and
\* is not rolled back
write_completion_no_rollback(row, new_row, db_fault) ==
    (test_sessions \ {row}) \cup {new_row}

\* lines 366-378: the table after the write; a failed commit is rolled back,
\* and the rollback after a failed refresh finds the write already committed
write_completion(row, new_row, db_fault) ==
    IF db_fault = "commit" THEN test_sessions ELSE (test_sessions \ {row}) \cup {new_row}

complete_test_session(current_user, session_id, answers, started_at, db_fault) ==
    LET s == resolve_session(session_id, current_user)
        st == parse_started_at(started_at)
        deck == DeckById(s.deck_id)
        bad == {i \in 1..Len(answers) : answer_status(answers[i]) # 200}
        answer_details == [i \in 1..Len(answers) |-> answer_detail(answers[i])]
        total_cards == Len(answer_details)
        correct_answers == count_correct(answer_details)
        completed_at == clock
        total_time == total_time_of(st.dt, completed_at, answer_details)
        db_test_session == first({r \in test_sessions :
                                     r.session_id = session_id /\ r.user_id = current_user})
    IN
    IF s.status # 200
    THEN [resp |-> HTTPException(s.status, s.detail), rows |-> test_sessions]
    ELSE IF st.status # 200
    THEN [resp |-> HTTPException(400, "Invalid started_at format"), rows |-> test_sessions]
    ELSE IF IsNone(deck)
    THEN [resp |-> HTTPException(404, "Deck not found"), rows |-> test_sessions]
    ELSE IF bad # {}
    THEN [resp |-> HTTPException(answer_status(answers[CHOOSE i \in bad :
                                                          \A j \in bad : i <= j]),
                                 "Invalid answers"),
          rows |-> test_sessions]
    ELSE IF ~IsNone(st.dt) /\ Val(st.dt).aware
    THEN [resp |-> HTTPException(500, "TypeError"), rows |-> test_sessions]
    ELSE IF IsNone(db_test_session)
    THEN [resp |-> HTTPException(404, "Test session not found"), rows |-> test_sessions]
    ELSE [resp |-> IF db_fault # "none"
                   THEN HTTPException(500, "Failed to update test session")
                   ELSE [status |-> 200,
                         body |-> [session_id |-> session_id,
                                   deck_title |-> Val(deck).title,
                                   deck_owner |-> Val(UserById(Val(deck).owner_id)).email,
                                   total_cards |-> total_cards,
                                   correct_answers |-> correct_answers,
                                   accuracy |-> accuracy_x100(correct_answers, total_cards),
                                   total_time |-> total_time,
                                   completed_at |-> completed_at,
                                   answers |-> answer_details]],
          rows |-> write_completion(Val(db_test_session),
                                    completed_row(Val(db_test_session), completed_at,
                                                  correct_answers, total_time,
                                                  answer_details),
                                    db_fault)]

(***************************************************************************)
(* GET /tests/results, GET /tests/result-summary, GET /tests/stats         *)
(***************************************************************************)
\* _parse_answers leaving out the answers to cards that no longer exist
_parse_answers_known_cards(raw_json) ==
    LET data == IF IsNone(raw_json) THEN <<>> ELSE Val(raw_json)
        kept == SelectSeq(data, LAMBDA a : ~IsNone(CardById(a.card_id)))
    IN
    [i \in 1..Len(kept) |->
        [card_id |-> kept[i].card_id,
         user_answer |-> kept[i].user_answer,
         is_correct |-> kept[i].is_correct,
         time_taken |-> kept[i].time_taken,
         options |-> None]]

\* _parse_answers: the TestAnswer list read back from answers_json; the
\* options key of a stored entry is not read, so options takes its default
_parse_answers(raw_json) ==
    LET data == IF IsNone(raw_json) THEN <<>> ELSE Val(raw_json) IN
    [i \in 1..Len(data) |->
        [card_id |-> data[i].card_id,
         user_answer |-> data[i].user_answer,
         is_correct |-> data[i].is_correct,
         time_taken |-> data[i].time_taken,
         options |-> None]]

\* lines 469 and 566
stored_or_counted(test_session, answer_details) ==
    IF ~IsNone(test_session.correct_answers)
    THEN Val(test_session.correct_answers)
    ELSE count_correct(answer_details)

get_test_results(current_user, session_id) ==
    LET v == validate_session_id(session_id, current_user)
        test_session == Val(v.row)
        deck == DeckById(test_session.deck_id)
        answer_details == _parse_answers(test_session.answers_json)
        total_cards == Len(answer_details)
        correct_answers == stored_or_counted(test_session, answer_details)
    IN
    IF v.status # 200
    THEN HTTPException(v.status, v.detail)
    ELSE IF IsNone(test_session.completed_at)
    THEN HTTPException(400, "Test session not completed yet")
    ELSE IF IsNone(deck) \/ IsNone(UserById(Val(deck).owner_id))
    THEN HTTPException(404, "Deck not found")
    ELSE [status |-> 200,
          body |-> [session_id |-> session_id,
                    deck_title |-> Val(deck).title,
                    deck_owner |-> Val(UserById(Val(deck).owner_id)).email,
                    total_cards |-> total_cards,
                    correct_answers |-> correct_answers,
                    accuracy |-> accuracy_x100(correct_answers, total_cards),
                    total_time |-> Val(test_session.total_time),
                    completed_at |-> Val(test_session.completed_at),
                    answers |-> answer_details]]

\* Max returning its second argument
Max_second(a, b) == b

\* max of line 567
Max(a, b) == IF a >= b THEN a ELSE b

get_test_result_summary(current_user, session_id) ==
    LET v == validate_session_id(session_id, current_user)
        test_session == Val(v.row)
        answers == _parse_answers(test_session.answers_json)
        total == Len(answers)
        correct == stored_or_counted(test_session, answers)
    IN
    IF v.status # 200
    THEN HTTPException(v.status, v.detail)
    ELSE IF IsNone(test_session.completed_at)
    THEN HTTPException(400, "Test session not completed yet")
    ELSE [status |-> 200,
          body |-> [total_questions |-> total,
                    correct_count |-> correct,
                    mistake_count |-> Max(total - correct, 0),
                    score_percent |-> accuracy_x100(correct, total)]]

\* lines 495-498: the completed sessions of the caller
completed_sessions(current_user) ==
    {s \in test_sessions : s.user_id = current_user /\ ~IsNone(s.completed_at)}

\* Query(...).all(): the rows as a list, in the order of the primary key
RECURSIVE all(_)
all(rows) ==
    IF rows = {} THEN <<>>
    ELSE LET r == CHOOSE x \in rows : \A y \in rows : x.id <= y.id
         IN <<r>> \o all(rows \ {r})

\* Python's round(n / d) for d > 0: to the nearest integer, ties to the even one
round_div(n, d) ==
    LET q == n \div d
        twice == 2 * (n - q * d)
    IN IF twice < d THEN q
       ELSE IF twice > d THEN q + 1
       ELSE IF q % 2 = 0 THEN q ELSE q + 1

\* line 521: newest first; rows of one instant keep the order of the query
RECURSIVE recent_sorted(_)
recent_sorted(rows) ==
    IF rows = {} THEN <<>>
    ELSE LET r == CHOOSE x \in rows : \A y \in rows :
                     \/ Val(x.completed_at) > Val(y.completed_at)
                     \/ Val(x.completed_at) = Val(y.completed_at) /\ x.id <= y.id
         IN <<r>> \o recent_sorted(rows \ {r})

\* line 529: the title reported for a deck that is gone ("Unknown Deck")
UnknownDeck == <<"U", "n", "k", "n", "o", "w", "n", " ", "D", "e", "c", "k">>

\* line 521: the number of recent tests listed
RecentLimit == 5

\* lines 524-536
recent_test(session) ==
    [session_id |-> session.session_id,
     deck_title |-> IF IsNone(DeckById(session.deck_id)) THEN UnknownDeck
                    ELSE Val(DeckById(session.deck_id)).title,
     completed_at |-> Val(session.completed_at),
     total_cards |-> session.total_cards,
     correct_answers |-> Val(session.correct_answers),
     accuracy |-> accuracy_x100(Val(session.correct_answers), session.total_cards),
     total_time |-> session.total_time]

get_user_test_stats(current_user) ==
    LET done == completed_sessions(current_user)
        listed == all(done)
        total_questions == SumSeq([i \in 1..Len(listed) |-> listed[i].total_cards])
        total_correct == SumSeq([i \in 1..Len(listed) |->
                                    IF IsNone(listed[i].correct_answers) THEN 0
                                    ELSE Val(listed[i].correct_answers)])
        with_time == all({s \in done : ~IsNone(s.total_time)})
        recent == recent_sorted(done)
    IN
    IF done = {}
    THEN [status |-> 200,
          body |-> [total_tests |-> 0, total_questions |-> 0, correct_answers |-> 0,
                    accuracy |-> 0, average_time |-> 0, recent_tests |-> <<>>]]
    ELSE [status |-> 200,
          body |-> [total_tests |-> Cardinality(done),
                    total_questions |-> total_questions,
                    correct_answers |-> total_correct,
                    accuracy |-> accuracy_x100(total_correct, total_questions),
                    average_time |-> IF Len(with_time) = 0 THEN 0
                                     ELSE round_div(SumSeq([i \in 1..Len(with_time) |->
                                                               Val(with_time[i].total_time)]),
                                                    Len(with_time)),
                    recent_tests |-> [i \in 1..(IF Len(recent) < RecentLimit THEN Len(recent)
                                                ELSE RecentLimit) |-> recent_test(recent[i])]]]

(***************************************************************************)
(* Requests.                                                               *)
(***************************************************************************)
\* session ids a request may carry: the uuids, an id no row has, the empty id
UnknownId == <<"0">>
SessionIdInputs == Uuids \cup {UnknownId, <<>>}

\* ids of the legacy form user_deck_timestamp, well formed or not
LegacyDeck1 == <<"u", "_", "1", "_", "t">>
LegacyNoDeck == <<"u", "_", "9", "_", "t">>
LegacyNotNumeric == <<"u", "_", "x", "_", "t">>
LegacyTwoParts == <<"u", "_", "1">>
LegacyEmptyMiddle == <<"u", "_", "_", "t">>
LegacySup2 == <<"u", "_", Sup2, "_", "t">>
LegacyIds == {LegacyDeck1, LegacyNoDeck, LegacyNotNumeric, LegacyTwoParts,
              LegacyEmptyMiddle, LegacySup2}

AnswerOk1 == [card_id |-> 1, user_answer |-> <<"A">>, is_correct |-> TRUE,
              time_taken |-> Some(2)]
AnswerOk2 == [card_id |-> 2, user_answer |-> <<" ", "b", " ">>, is_correct |-> FALSE,
              time_taken |-> Some(5)]
AnswerNoCard == [card_id |-> 7, user_answer |-> <<"H">>, is_correct |-> TRUE,
                 time_taken |-> None]
AnswerBadCard == [card_id |-> 0, user_answer |-> <<"A">>, is_correct |-> TRUE,
                  time_taken |-> None]
AnswerBadText == [card_id |-> 1, user_answer |-> <<"x", ";">>, is_correct |-> TRUE,
                  time_taken |-> None]
AnswerBadTime == [card_id |-> 1, user_answer |-> <<"A">>, is_correct |-> FALSE,
                  time_taken |-> Some(-1)]
AnswerMatchCard == [card_id |-> 3, user_answer |-> <<"H">>, is_correct |-> TRUE,
                    time_taken |-> None]

AnswerLists == {<<>>, <<AnswerOk1, AnswerOk2, AnswerNoCard>>,
                <<AnswerOk1, AnswerBadCard>>, <<AnswerBadText>>, <<AnswerBadTime>>,
                <<AnswerMatchCard>>}

StartedAtInputs == {None, Some(<<"T", "0">>), Some(<<"T", "0", "Z">>), Some(<<"x">>),
                    Some(<<"T", "0", ";">>)}

\* the requests to complete: every session id, every answer list and every
\* started_at, each varied with the others at their plain value
CompleteRequests ==
    {[session_id |-> sid, answers |-> <<>>, started_at |-> None] :
        sid \in SessionIdInputs \cup LegacyIds}
    \cup {[session_id |-> sid, answers |-> a, started_at |-> None] :
             sid \in Uuids, a \in AnswerLists}
    \cup {[session_id |-> sid, answers |-> <<>>, started_at |-> st] :
             sid \in Uuids, st \in StartedAtInputs}

CardIdInputs == {0, 1, 2, 3, 7}
UserAnswerInputs == {<<"a">>, <<" ", "b", " ">>, <<"x", ";">>, <<"H">>}

SubmitRequests ==
    {[session_id |-> sid, card_id |-> 1, user_answer |-> <<"a">>, time_taken |-> None] :
        sid \in SessionIdInputs}
    \cup {[session_id |-> sid, card_id |-> c, user_answer |-> a, time_taken |-> None] :
             sid \in Uuids, c \in CardIdInputs, a \in UserAnswerInputs}
    \cup {[session_id |-> sid, card_id |-> 1, user_answer |-> <<"a">>, time_taken |-> t] :
             sid \in Uuids, t \in {Some(3), Some(-1)}}

Submit ==
    /\ last = Idle
    /\ \E current_user \in UserIds, q \in SubmitRequests :
          LET r == submit_test_answer(current_user, q.session_id, q.card_id, q.user_answer,
                                      q.time_taken)
          IN /\ test_sessions' = r.rows
             /\ last' = Request("submit-answer", current_user, q.session_id, 0, r.resp)
    /\ UNCHANGED <<issued, users, decks, cards, clock, deck_likes, deck_favorites, calls>>

Complete ==
    /\ last = Idle
    /\ \E current_user \in UserIds, q \in CompleteRequests, db_fault \in DbFaults :
          LET r == complete_test_session(current_user, q.session_id, q.answers,
                                         q.started_at, db_fault)
          IN /\ test_sessions' = r.rows
             /\ last' = Request("complete", current_user, q.session_id, 0, r.resp)
    /\ UNCHANGED <<issued, users, decks, cards, clock, deck_likes, deck_favorites, calls>>

Results ==
    /\ last = Idle
    /\ \E current_user \in UserIds, session_id \in SessionIdInputs :
          last' = Request("results", current_user, session_id, 0,
                          get_test_results(current_user, session_id))
    /\ UNCHANGED <<issued, users, decks, cards, test_sessions, clock, deck_likes, deck_favorites, calls>>

ResultSummary ==
    /\ last = Idle
    /\ \E current_user \in UserIds, session_id \in SessionIdInputs :
          last' = Request("result-summary", current_user, session_id, 0,
                          get_test_result_summary(current_user, session_id))
    /\ UNCHANGED <<issued, users, decks, cards, test_sessions, clock, deck_likes, deck_favorites, calls>>

Stats ==
    /\ last = Idle
    /\ \E current_user \in UserIds :
          last' = Request("stats", current_user, <<>>, 0, get_user_test_stats(current_user))
    /\ UNCHANGED <<issued, users, decks, cards, test_sessions, clock, deck_likes, deck_favorites, calls>>

\* the response leaves the server, which takes the next request
Respond ==
    /\ last # Idle
    /\ last' = Idle
    /\ UNCHANGED <<issued, users, decks, cards, test_sessions, clock, deck_likes, deck_favorites, calls>>

(***************************************************************************)
(* The system.                                                             *)
(***************************************************************************)
Init ==
    /\ users = InitUsers
    /\ decks = InitDecks
    /\ cards = {Card1, Card2, Card3}
    /\ test_sessions = {}
    /\ deck_likes = EmptyBag
    /\ deck_favorites = EmptyBag
    /\ clock = 0
    /\ last = Idle
    /\ calls = [c \in CallIds |-> IdleCall]
    /\ issued = {}

Next ==
    \/ Start
    \/ Submit
    \/ Complete
    \/ Results
    \/ ResultSummary
    \/ Stats
    \/ Respond

Spec == Init /\ [][Next]_vars

(***************************************************************************)
(* The test routes of one user on one deck, with time passing between the  *)
(* requests.                                                               *)
(***************************************************************************)
\* a second passes on the clock datetime.now() reads
Tick ==
    /\ last = Idle
    /\ clock < MaxClock
    /\ clock' = clock + 1
    /\ UNCHANGED <<issued, users, decks, cards, test_sessions, last, deck_likes, deck_favorites, calls>>

TimedStart ==
    /\ Cardinality(test_sessions) < MaxTimedSessions
    /\ Start
    /\ last'.user = 1
    /\ last'.deck_id = 1

TimedComplete == Complete /\ last'.user = 1

TimedResults == Results /\ last'.user = 1

TimedResultSummary == ResultSummary /\ last'.user = 1

NextTimed ==
    \/ Tick
    \/ TimedStart
    \/ TimedComplete
    \/ TimedResults
    \/ TimedResultSummary
    \/ Respond

SpecTimed == Init /\ [][NextTimed]_vars

(***************************************************************************)
(* Concurrent complete calls.  Each request has its own database session;  *)
(* between the read of the record (line 292) and the commit (line 374)     *)
(* other requests run.                                                     *)
(***************************************************************************)
\* the columns a completion assigns (lines 370-373)
CompletionColumns == {"completed_at", "correct_answers", "total_time", "answers_json"}

\* the values a call assigns to them, from the response it has computed
assigned(body) ==
    [completed_at |-> Some(body.completed_at),
     correct_answers |-> Some(body.correct_answers),
     total_time |-> Some(body.total_time),
     answers_json |-> Some(body.answers)]

\* lines 370-375: the flush issues UPDATE ... WHERE id = :id with the columns
\* whose assigned value differs from the value this request loaded; the other
\* columns of the row in the table stay as they are
update_changed(loaded, body, db_fault) ==
    LET current == CHOOSE s \in test_sessions : s.id = loaded.id
        new_row == [col \in DOMAIN current |->
                       IF col \in CompletionColumns /\ assigned(body)[col] # loaded[col]
                       THEN assigned(body)[col]
                       ELSE current[col]]
    IN IF db_fault = "commit" THEN test_sessions
       ELSE (test_sessions \ {current}) \cup {new_row}

\* the complete requests of the concurrent calls: no started_at
ConcurrentRequests == {q \in CompleteRequests : q.started_at = None /\ q.session_id \in Uuids}

\* lines 290-363 of a call: the record is read, the request validated and
\* the result computed; a refused request is answered at once
BeginComplete(c) ==
    /\ last = Idle
    /\ calls[c] = IdleCall
    /\ \E current_user \in {1}, q \in ConcurrentRequests :
          LET r == complete_test_session(current_user, q.session_id, q.answers,
                                         q.started_at, "none")
              v == validate_session_id(q.session_id, current_user)
          IN IF r.resp.status # 200
             THEN /\ last' = Request("complete", current_user, q.session_id, 0, r.resp)
                  /\ calls' = calls
             ELSE /\ last' = last
                  /\ calls' = [calls EXCEPT ![c] = [pc |-> "write",
                                                    user |-> current_user,
                                                    session_id |-> q.session_id,
                                                    loaded |-> Val(v.row),
                                                    body |-> r.resp.body]]
    /\ UNCHANGED <<issued, users, decks, cards, test_sessions, clock, deck_likes, deck_favorites>>

\* lines 366-390 of a call: the write, the commit and the response; the call
\* is kept as done
WriteComplete(c) ==
    /\ last = Idle
    /\ calls[c] # IdleCall
    /\ calls[c].pc = "write"
    /\ \E db_fault \in DbFaults :
          /\ test_sessions' = update_changed(calls[c].loaded, calls[c].body, db_fault)
          /\ last' = Request("complete", calls[c].user, calls[c].session_id, 0,
                             IF db_fault # "none"
                             THEN HTTPException(500, "Failed to update test session")
                             ELSE [status |-> 200, body |-> calls[c].body])
    /\ calls' = [calls EXCEPT ![c] = [pc |-> "done",
                                      user |-> calls[c].user,
                                      session_id |-> calls[c].session_id,
                                      loaded |-> calls[c].loaded,
                                      body |-> calls[c].body]]
    /\ UNCHANGED <<issued, users, decks, cards, clock, deck_likes, deck_favorites>>

NextConcurrent ==
    \/ Tick
    \/ TimedStart
    \/ \E c \in CallIds : BeginComplete(c)
    \/ \E c \in CallIds : WriteComplete(c)
    \/ Respond

SpecConcurrent == Init /\ [][NextConcurrent]_vars

(***************************************************************************)
(* complete with a started_at of the caller's choice, while time passes.   *)
(***************************************************************************)
\* the started_at texts the requests carry: none, the instant the clock
\* starts at, and instants after it
TimedStartedAtInputs == {None, Some(<<"T", "0">>), Some(<<"T", "1">>), Some(<<"T", "9">>)}

\* the answer lists the requests carry
TimedAnswerLists == {<<>>, <<AnswerOk1, AnswerOk2, AnswerNoCard>>}

\* POST /tests/complete by user 1
CompleteStartedAt ==
    /\ last = Idle
    /\ \E session_id \in Uuids, answers \in TimedAnswerLists,
          started_at \in TimedStartedAtInputs, db_fault \in DbFaults :
          LET r == complete_test_session(1, session_id, answers, started_at, db_fault)
          IN /\ test_sessions' = r.rows
             /\ last' = Request("complete", 1, session_id, 0, r.resp)
    /\ UNCHANGED <<issued, users, decks, cards, clock, deck_likes, deck_favorites, calls>>

NextStartedAt ==
    \/ Tick
    \/ TimedStart
    \/ CompleteStartedAt
    \/ Respond

SpecStartedAt == Init /\ [][NextStartedAt]_vars

(***************************************************************************)
(* Likes, favorites and the deck listing (src/routes/decks_routes.py).     *)
(* A like or favorite request looks the row up and then inserts or deletes *)
(* it; other requests run between the two statements.                      *)
(***************************************************************************)
\* a row of deck_likes or deck_favorites
JoinRow(user_id, deck_id) == [user_id |-> user_id, deck_id |-> deck_id]

\* unique_ok without the constraint
unique_ok_unconstrained(row, table) == TRUE

\* db.py lines 75-77 and 88-90: UniqueConstraint(user_id, deck_id); the
\* INSERT of a second row of the pair raises IntegrityError
unique_ok(row, table) == ~BagIn(row, table)

\* INSERT of the row and commit
insert_row(row, table) == table (+) SetToBag({row})

\* DELETE of the loaded row and commit; a row that is gone matches nothing
delete_row(row, table) == IF BagIn(row, table) THEN table (-) SetToBag({row}) ELSE table

NoContent == [status |-> 204, body |-> [detail |-> ""]]

\* an unhandled exception: the server answers 500
InternalServerError == [status |-> 500, body |-> [detail |-> "Internal Server Error"]]

DeckCallIds == 1..MaxDeckCalls

\* the decks like requests name, and the decks favorite requests name
LikeDeckIds == {1, 3, 9}
FavoriteDeckIds == {2, 9}

\* a request between its lookup and its write; row_gone: the row it loaded
\* has been deleted by another request since
PendingCall(pc, current_user, deck_id) ==
    [pc |-> pc, user |-> current_user, deck_id |-> deck_id, row_gone |-> FALSE]

\* the DELETE names the loaded row by its id. A row that is gone matches
\* nothing, unless the database has given its id to a later row of the
\* table (SQLite reuses the largest rowid), which is then deleted
delete_loaded(call, table) ==
    IF call.row_gone
    THEN {table, delete_row(JoinRow(call.user, call.deck_id), table)}
    ELSE {delete_row(JoinRow(call.user, call.deck_id), table)}

\* request c ends; the other requests that loaded the row it deleted hold
\* a row that is gone
end_delete(c, deleted) ==
    [k \in DOMAIN calls |->
        IF k = c THEN IdleCall
        ELSE IF /\ deleted
                /\ calls[k].pc = calls[c].pc
                /\ calls[k].user = calls[c].user
                /\ calls[k].deck_id = calls[c].deck_id
             THEN [calls[k] EXCEPT !.row_gone = TRUE]
             ELSE calls[k]]

\* lines 371-376: like_deck up to the lookup of the row
BeginLike(c) ==
    /\ last = Idle
    /\ calls[c] = IdleCall
    /\ \E current_user \in UserIds, deck_id \in LikeDeckIds :
          IF IsNone(DeckById(deck_id))
          THEN /\ last' = Request("like", current_user, <<>>, deck_id,
                                  HTTPException(404, "Deck not found"))
               /\ calls' = calls
          ELSE IF BagIn(JoinRow(current_user, deck_id), deck_likes)
          THEN /\ last' = Request("like", current_user, <<>>, deck_id, NoContent)
               /\ calls' = calls
          ELSE /\ last' = last
               /\ calls' = [calls EXCEPT ![c] = PendingCall("insert_like", current_user,
                                                            deck_id)]
    /\ UNCHANGED <<issued, users, decks, cards, test_sessions, clock, deck_likes, deck_favorites>>

\* lines 377-379: the INSERT, the commit and the response
CommitLike(c) ==
    /\ last = Idle
    /\ calls[c] # IdleCall
    /\ calls[c].pc = "insert_like"
    /\ LET row == JoinRow(calls[c].user, calls[c].deck_id) IN
       IF unique_ok(row, deck_likes)
       THEN /\ deck_likes' = insert_row(row, deck_likes)
            /\ last' = Request("like", calls[c].user, <<>>, calls[c].deck_id, NoContent)
       ELSE /\ deck_likes' = deck_likes
            /\ last' = Request("like", calls[c].user, <<>>, calls[c].deck_id,
                               InternalServerError)
    /\ calls' = [calls EXCEPT ![c] = IdleCall]
    /\ UNCHANGED <<issued, users, decks, cards, test_sessions, clock, deck_favorites>>

\* lines 384-386: unlike_deck up to the lookup of the row
BeginUnlike(c) ==
    /\ last = Idle
    /\ calls[c] = IdleCall
    /\ \E current_user \in UserIds, deck_id \in LikeDeckIds :
          IF ~BagIn(JoinRow(current_user, deck_id), deck_likes)
          THEN /\ last' = Request("unlike", current_user, <<>>, deck_id, NoContent)
               /\ calls' = calls
          ELSE /\ last' = last
               /\ calls' = [calls EXCEPT ![c] = PendingCall("delete_like", current_user,
                                                            deck_id)]
    /\ UNCHANGED <<issued, users, decks, cards, test_sessions, clock, deck_likes, deck_favorites>>

\* lines 387-389: the DELETE, the commit and the response
CommitUnlike(c) ==
    /\ last = Idle
    /\ calls[c] # IdleCall
    /\ calls[c].pc = "delete_like"
    /\ deck_likes' \in delete_loaded(calls[c], deck_likes)
    /\ last' = Request("unlike", calls[c].user, <<>>, calls[c].deck_id, NoContent)
    /\ calls' = end_delete(c, deck_likes' # deck_likes)
    /\ UNCHANGED <<issued, users, decks, cards, test_sessions, clock, deck_favorites>>

\* lines 393-399: favorite_deck up to the lookup of the row
BeginFavorite(c) ==
    /\ last = Idle
    /\ calls[c] = IdleCall
    /\ \E current_user \in UserIds, deck_id \in FavoriteDeckIds :
          LET deck == DeckById(deck_id) IN
          IF IsNone(deck)
          THEN /\ last' = Request("favorite", current_user, <<>>, deck_id,
                                  HTTPException(404, "Deck not found"))
               /\ calls' = calls
          ELSE IF Val(deck).visibility # "public" /\ Val(deck).owner_id # current_user
          THEN /\ last' = Request("favorite", current_user, <<>>, deck_id,
                                  HTTPException(403, "Cannot favorite a private deck you do not own"))
               /\ calls' = calls
          ELSE IF BagIn(JoinRow(current_user, deck_id), deck_favorites)
          THEN /\ last' = Request("favorite", current_user, <<>>, deck_id, NoContent)
               /\ calls' = calls
          ELSE /\ last' = last
               /\ calls' = [calls EXCEPT ![c] = PendingCall("insert_favorite", current_user,
                                                            deck_id)]
    /\ UNCHANGED <<issued, users, decks, cards, test_sessions, clock, deck_likes, deck_favorites>>

\* lines 400-404: the INSERT, the commit and the response
CommitFavorite(c) ==
    /\ last = Idle
    /\ calls[c] # IdleCall
    /\ calls[c].pc = "insert_favorite"
    /\ LET row == JoinRow(calls[c].user, calls[c].deck_id) IN
       IF unique_ok(row, deck_favorites)
       THEN /\ deck_favorites' = insert_row(row, deck_favorites)
            /\ last' = Request("favorite", calls[c].user, <<>>, calls[c].deck_id, NoContent)
       ELSE /\ deck_favorites' = deck_favorites
            /\ last' = Request("favorite", calls[c].user, <<>>, calls[c].deck_id,
                               InternalServerError)
    /\ calls' = [calls EXCEPT ![c] = IdleCall]
    /\ UNCHANGED <<issued, users, decks, cards, test_sessions, clock, deck_likes>>

\* lines 408-409: unfavorite_deck up to the lookup of the row
BeginUnfavorite(c) ==
    /\ last = Idle
    /\ calls[c] = IdleCall
    /\ \E current_user \in UserIds, deck_id \in FavoriteDeckIds :
          IF ~BagIn(JoinRow(current_user, deck_id), deck_favorites)
          THEN /\ last' = Request("unfavorite", current_user, <<>>, deck_id, NoContent)
               /\ calls' = calls
          ELSE /\ last' = last
               /\ calls' = [calls EXCEPT ![c] = PendingCall("delete_favorite", current_user,
                                                            deck_id)]
    /\ UNCHANGED <<issued, users, decks, cards, test_sessions, clock, deck_likes, deck_favorites>>

\* lines 410-412: the DELETE, the commit and the response
CommitUnfavorite(c) ==
    /\ last = Idle
    /\ calls[c] # IdleCall
    /\ calls[c].pc = "delete_favorite"
    /\ deck_favorites' \in delete_loaded(calls[c], deck_favorites)
    /\ last' = Request("unfavorite", calls[c].user, <<>>, calls[c].deck_id, NoContent)
    /\ calls' = end_delete(c, deck_favorites' # deck_favorites)
    /\ UNCHANGED <<issued, users, decks, cards, test_sessions, clock, deck_likes>>

\* lines 241-244: public decks and the caller's private decks
list_decks_query(current_user) ==
    {d \in decks : \/ d.visibility = "public"
                   \/ d.visibility = "private" /\ d.owner_id = current_user}

\* line 250: order_by(Deck.created_at.desc()); rows of one created_at come
\* in whatever order the database produces
order_by_created_at_desc(rows) ==
    {q \in [1..Cardinality(rows) -> rows] :
        /\ \A i, j \in DOMAIN q : i # j => q[i] # q[j]
        /\ \A i, j \in DOMAIN q : i < j => q[i].created_at >= q[j].created_at}

\* line 250: offset((page-1)*size).limit(size)
offset_limit(q, page, size) ==
    SubSeq(q, (page - 1) * size + 1, IF page * size < Len(q) THEN page * size ELSE Len(q))

\* lines 253-265: the DeckOut of one deck
DeckOut(d) ==
    [id |-> d.id, title |-> d.title, visibility |-> d.visibility, owner_id |-> d.owner_id,
     created_at |-> d.created_at, card_count |-> Cardinality(CardsOfDeck(d.id)),
     favourite |-> FALSE, like_count |-> 0, liked |-> FALSE]

\* the pages and page sizes list requests name
ListPages == {1, 2}
ListSizes == {2, 10}

\* lines 230-266: GET /decks without search and tag
ListDecks ==
    /\ last = Idle
    /\ \E current_user \in UserIds, page \in ListPages, size \in ListSizes :
         \E q \in order_by_created_at_desc(list_decks_query(current_user)) :
            LET page_rows == offset_limit(q, page, size) IN
            last' = Request("list", current_user, <<>>, 0,
                            [status |-> 200,
                             body |-> [out |-> [i \in DOMAIN page_rows |->
                                                   DeckOut(page_rows[i])]]])
    /\ UNCHANGED <<issued, users, decks, cards, test_sessions, clock, deck_likes, deck_favorites, calls>>

NextDecks ==
    \/ \E c \in DeckCallIds : BeginLike(c)
    \/ \E c \in DeckCallIds : CommitLike(c)
    \/ \E c \in DeckCallIds : BeginUnlike(c)
    \/ \E c \in DeckCallIds : CommitUnlike(c)
    \/ \E c \in DeckCallIds : BeginFavorite(c)
    \/ \E c \in DeckCallIds : CommitFavorite(c)
    \/ \E c \in DeckCallIds : BeginUnfavorite(c)
    \/ \E c \in DeckCallIds : CommitUnfavorite(c)
    \/ ListDecks
    \/ Respond

SpecDecks == Init /\ [][NextDecks]_vars

(***************************************************************************)
(* Decks and cards (src/routes/decks_routes.py).                           *)
(***************************************************************************)
\* the keys of r that are in keys
Restrict(r, keys) == [k \in (DOMAIN r) \cap keys |-> r[k]]

\* the request body failed validation: the handler is not entered
UnprocessableEntity == [status |-> 422, body |-> [detail |-> "validation error"]]

\* lines 30-34: the fields of DeckUpdate; other keys of the body are ignored
DeckUpdateFields == {"title", "description", "tags", "visibility"}

\* line 34: visibility is Optional[Literal["public", "private"]]
DeckUpdate_valid(payload) ==
    "visibility" \in DOMAIN payload => payload.visibility \in {"public", "private"}

\* line 435: payload.dict(exclude_unset=True)
DeckUpdate_dict(payload) == Restrict(payload, DeckUpdateFields)

\* the deck as the response model returns it
deck_response(d) ==
    [id |-> d.id, title |-> d.title, tags |-> d.tags, visibility |-> d.visibility,
     owner_id |-> d.owner_id, created_at |-> d.created_at]

\* lines 422-423, 504-505, 533-534: the owner, or anyone when the deck is public
may_read(deck, current_user) ==
    deck.owner_id = current_user \/ deck.visibility = "public"

\* lines 415-425
get_deck(current_user, deck_id) ==
    LET deck == DeckById(deck_id) IN
    IF IsNone(deck) THEN HTTPException(404, "Deck not found")
    ELSE IF ~may_read(Val(deck), current_user) THEN HTTPException(403, "Deck is private")
    ELSE [status |-> 200, body |-> deck_response(Val(deck))]

\* owned_deck finding the deck whoever owns it
owned_deck_of_anyone(deck_id, current_user) == first({d \in decks : d.id = deck_id})

\* lines 431, 447, 558, 615: the deck of that id owned by the caller
owned_deck(deck_id, current_user) ==
    first({d \in decks : d.id = deck_id /\ d.owner_id = current_user})

\* lines 437-438: setattr for every field of the update
apply_update(row, data) ==
    [f \in DOMAIN row |-> IF f \in DOMAIN data THEN data[f] ELSE row[f]]

\* lines 428-442: the response and the decks after it
update_deck(current_user, deck_id, payload) ==
    LET deck == owned_deck(deck_id, current_user)
        updated == apply_update(Val(deck), DeckUpdate_dict(payload))
    IN
    IF ~DeckUpdate_valid(payload) THEN [resp |-> UnprocessableEntity, decks |-> decks]
    ELSE IF IsNone(deck)
    THEN [resp |-> HTTPException(404, "Deck not found"), decks |-> decks]
    ELSE [resp |-> [status |-> 200, body |-> deck_response(updated)],
          decks |-> (decks \ {Val(deck)}) \cup {updated}]

\* db.py lines 57, 79, 92: rows of test_sessions, deck_favorites and
\* deck_likes hold a foreign key to the deck
deck_referenced(deck_id) ==
    \/ \E s \in test_sessions : s.deck_id = deck_id
    \/ \E r \in BagToSet(deck_likes) \cup BagToSet(deck_favorites) : r.deck_id = deck_id

\* cascade_cards with no cascade from the deck to its cards
cascade_cards_none(deck_id) == {}

\* db.py line 38: cascade="all, delete-orphan" on Deck.cards; the rows
\* deleted with the deck
cascade_cards(deck_id) == CardsOfDeck(deck_id)

\* lines 445-452: the response, the decks and the cards after it.  The
\* relationship of db.py line 38 deletes the deck's cards with it.  The rows
\* that reference the deck are left alone: a database that enforces foreign
\* keys refuses the DELETE, one that does not (SQLite by default) keeps them
delete_deck(current_user, deck_id, fk_enforced) ==
    LET deck == owned_deck(deck_id, current_user) IN
    IF IsNone(deck)
    THEN [resp |-> HTTPException(404, "Deck not found"), decks |-> decks, cards |-> cards]
    ELSE IF fk_enforced /\ deck_referenced(deck_id)
    THEN [resp |-> InternalServerError, decks |-> decks, cards |-> cards]
    ELSE [resp |-> NoContent, decks |-> decks \ {Val(deck)},
          cards |-> cards \ cascade_cards(deck_id)]

\* the orders random.shuffle can leave a list in
shuffle(list) ==
    {[i \in 1..Len(list) |-> list[p[i]]] :
        p \in {f \in [1..Len(list) -> 1..Len(list)] :
                  \A i, j \in 1..Len(list) : f[i] = f[j] => i = j}}

\* an option text is at most one character long: not opt.strip()
blank(opt) == opt.str = "" \/ opt.str \in Whitespace

\* lines 46-53: validate_options
validate_options(v) == Len(v) >= 4 /\ \A i \in 1..Len(v) : IsJStr(v[i]) /\ ~blank(v[i])

\* a {left, right} object
IsPair(e) == DOMAIN e = {"left", "right"}

\* lines 92-99: validate_pairs
validate_pairs(v) ==
    Len(v) = 4 /\ \A i \in 1..Len(v) : IsPair(v[i]) /\ v[i].left # "" /\ v[i].right # ""

\* lines 43-44, 69, 88-89, 122: the body parses as one of the three CardCreate models
CardCreate_valid(payload) ==
    /\ {"qtype", "question", "answer"} \subseteq DOMAIN payload
    /\ payload.qtype \in {"mcq", "fillups", "match"}
    /\ payload.qtype = "mcq" => "options" \in DOMAIN payload /\ validate_options(payload.options)
    /\ payload.qtype = "match" => "pairs" \in DOMAIN payload /\ validate_pairs(payload.pairs)

\* lines 465-470: the options column of the new card
options_json_of(payload) ==
    IF payload.qtype = "mcq" THEN Some(payload.options)
    ELSE IF payload.qtype = "match" THEN Some(payload.pairs)
    ELSE None

\* the id the database gives the new card: one above the largest in the table
next_card_id == IF cards = {} THEN 1
                ELSE 1 + (CHOOSE m \in {c.id : c \in cards} : \A c \in cards : c.id <= m)

\* lines 471-478
new_card(deck, payload) ==
    [id |-> next_card_id, deck_id |-> deck.id, question |-> payload.question,
     answer |-> payload.answer, qtype |-> payload.qtype,
     options_json |-> options_json_of(payload), visibility |-> deck.visibility]

\* lines 484-494, 512-521, 536-546: the card as CardOut, its options in the order given
CardOut(card, opts) ==
    [id |-> card.id, question |-> card.question, answer |-> card.answer,
     qtype |-> card.qtype, options |-> opts]

\* lines 484-487, 510-513, 536-539: the decoded options in the orders they can
\* be returned in; those of a match card are shuffled
shuffled_options(card) ==
    IF IsNone(card.options_json) THEN {None}
    ELSE IF card.qtype = "match" THEN {Some(o) : o \in shuffle(Val(card.options_json))}
    ELSE {card.options_json}

\* lines 456-494: the responses add_card can give and the cards after it
add_card(current_user, deck_id, payload) ==
    LET deck == DeckById(deck_id)
        card == new_card(Val(deck), payload)
    IN
    IF ~CardCreate_valid(payload) THEN {[resp |-> UnprocessableEntity, cards |-> cards]}
    ELSE IF IsNone(deck)
    THEN {[resp |-> HTTPException(404, "Deck not found"), cards |-> cards]}
    ELSE IF Val(deck).owner_id # current_user
    THEN {[resp |-> HTTPException(403, "Not authorized to add cards to this deck"),
           cards |-> cards]}
    ELSE {[resp |-> [status |-> 201, body |-> CardOut(card, opts)],
           cards |-> cards \cup {card}] : opts \in shuffled_options(card)}

\* lines 497-522: the responses list_cards can give
list_cards(current_user, deck_id) ==
    LET deck == DeckById(deck_id)
        listed == all(CardsOfDeck(deck_id))
    IN
    IF IsNone(deck) THEN {HTTPException(404, "Deck not found")}
    ELSE IF ~may_read(Val(deck), current_user) THEN {HTTPException(403, "Deck is private")}
    ELSE {[status |-> 200,
           body |-> [out |-> [i \in 1..Len(listed) |-> CardOut(listed[i], opts[i])]]] :
             opts \in {o \in [1..Len(listed) -> UNION {shuffled_options(c) : c \in cards}] :
                          \A i \in 1..Len(listed) : o[i] \in shuffled_options(listed[i])}}

\* lines 526-547: the responses get_card can give
get_card(current_user, deck_id, card_id) ==
    LET deck == DeckById(deck_id)
        card == first({c \in cards : c.id = card_id /\ c.deck_id = deck_id})
    IN
    IF IsNone(deck) THEN {HTTPException(404, "Deck not found")}
    ELSE IF IsNone(card) THEN {HTTPException(404, "Card not found")}
    ELSE IF ~may_read(Val(deck), current_user)
    THEN {HTTPException(403, "Not authorized to view this card")}
    ELSE {[status |-> 200, body |-> CardOut(Val(card), opts)] :
             opts \in shuffled_options(Val(card))}

\* lines 142-147: qtype is one of the three literals and options, when
\* given, is a list of strings
CardUpdate_valid(payload) ==
    /\ "qtype" \in DOMAIN payload => payload.qtype \in {"mcq", "fillups", "match"}
    /\ "options" \in DOMAIN payload =>
          \A i \in 1..Len(payload.options) : IsJStr(payload.options[i])

\* line 564: payload.dict(exclude_unset=True)
CardUpdate_dict(payload) == Restrict(payload, {"question", "answer", "qtype", "options"})

\* data.get("options")
get_options(data) == IF "options" \in DOMAIN data THEN Some(data.options) ELSE None

\* line 572: the mcq options are acceptable
mcq_options_ok(opts) == Len(opts) >= 4 /\ \A i \in 1..Len(opts) : IsJStr(opts[i]) /\ ~blank(opts[i])

\* lines 583-587: the match options are acceptable
match_options_ok(opts) ==
    Len(opts) = 4 /\ \A i \in 1..Len(opts) : IsPair(opts[i]) /\ opts[i].left # "" /\ opts[i].right # ""

\* lines 565-594: the options column after the update, or the 400 raised
retype(card, data) ==
    LET new_qtype == IF "qtype" \in DOMAIN data THEN data.qtype ELSE card.qtype
        opts == get_options(data)
    IN
    IF ~IsNone(opts) /\ new_qtype \notin {"mcq", "match"}
    THEN [status |-> 400, options_json |-> card.options_json]
    ELSE IF new_qtype = "mcq"
    THEN IF ~IsNone(opts) /\ ~mcq_options_ok(Val(opts))
         THEN [status |-> 400, options_json |-> card.options_json]
         ELSE IF IsNone(opts) /\ IsNone(card.options_json)
         THEN [status |-> 400, options_json |-> card.options_json]
         ELSE [status |-> 200,
               options_json |-> IF IsNone(opts) THEN card.options_json ELSE opts]
    ELSE IF new_qtype = "match"
    THEN IF ~IsNone(opts) /\ ~match_options_ok(Val(opts))
         THEN [status |-> 400, options_json |-> card.options_json]
         ELSE IF IsNone(opts) /\ IsNone(card.options_json)
         THEN [status |-> 400, options_json |-> card.options_json]
         ELSE [status |-> 200,
               options_json |-> IF IsNone(opts) THEN card.options_json ELSE opts]
    ELSE [status |-> 200, options_json |-> None]

\* lines 550-610: the response and the cards after it
update_card(current_user, deck_id, card_id, payload) ==
    LET deck == owned_deck(deck_id, current_user)
        card == first({c \in cards : c.id = card_id /\ c.deck_id = deck_id})
        data == CardUpdate_dict(payload)
        r == retype(Val(card), data)
        updated == [apply_update(Val(card), Restrict(data, {"question", "answer", "qtype"}))
                       EXCEPT !.options_json = r.options_json]
    IN
    IF ~CardUpdate_valid(payload) THEN [resp |-> UnprocessableEntity, cards |-> cards]
    ELSE IF IsNone(deck)
    THEN [resp |-> HTTPException(404, "Deck not found or not owned by user"), cards |-> cards]
    ELSE IF IsNone(card)
    THEN [resp |-> HTTPException(404, "Card not found"), cards |-> cards]
    ELSE IF r.status # 200
    THEN [resp |-> HTTPException(400, "Invalid options"), cards |-> cards]
    ELSE [resp |-> [status |-> 200, body |-> CardOut(updated, updated.options_json)],
          cards |-> (cards \ {Val(card)}) \cup {updated}]

\* lines 613-623: the response and the cards after it
delete_card(current_user, deck_id, card_id) ==
    LET deck == owned_deck(deck_id, current_user)
        card == first({c \in cards : c.id = card_id /\ c.deck_id = deck_id})
    IN
    IF IsNone(deck)
    THEN [resp |-> HTTPException(404, "Deck not found or not owned by user"), cards |-> cards]
    ELSE IF IsNone(card)
    THEN [resp |-> HTTPException(404, "Card not found"), cards |-> cards]
    ELSE [resp |-> NoContent, cards |-> cards \ {Val(card)}]

\* Deck.title.ilike("%" + text + "%"): the column holds the text, whatever
\* the case of the letters; a NULL column matches nothing
ilike(column, text) == ~IsNone(column) /\ Contains(lower(Val(column)), lower(text))

\* lines 241-249: the rows of list_decks with the search and tag filters
list_decks_filtered(current_user, search, tag) ==
    {d \in list_decks_query(current_user) :
        /\ (~IsNone(search) /\ Val(search) # <<>>) => ilike(Some(d.title), Val(search))
        /\ (~IsNone(tag) /\ Val(tag) # <<>>) => ilike(d.tags, Val(tag))}

\* the decks the deck and card requests name: a public and a private deck of
\* user 1 and a deck that does not exist
CardDeckIds == {1, 2, 9}

\* the bodies of PATCH /decks/{deck_id}
UpdateDeckPayloads == {[visibility |-> "private"],
                       [visibility |-> "public", owner_id |-> 2],
                       [visibility |-> "hidden"]}

FourOptions == <<JStr("A"), JStr("B"), JStr("H"), JStr("R")>>
ThreeOptions == <<JStr("A"), JStr("B"), JStr("H")>>
FourPairs == <<[left |-> "a", right |-> "A"], [left |-> "b", right |-> "B"],
               [left |-> "h", right |-> "H"], [left |-> "r", right |-> "R"]>>

\* the bodies of POST /decks/{deck_id}/cards
AddCardPayloads ==
    {[qtype |-> "mcq", question |-> "Pick", answer |-> <<"A">>, options |-> FourOptions],
     [qtype |-> "mcq", question |-> "Pick", answer |-> <<"A">>, options |-> ThreeOptions],
     [qtype |-> "fillups", question |-> "Fill", answer |-> <<"A">>],
     [qtype |-> "match", question |-> "Match", answer |-> <<>>, pairs |-> FourPairs]}

\* the (deck, card) pairs the card requests name
CardTargets == {<<1, 1>>, <<1, 2>>, <<2, 3>>, <<1, 3>>}

\* the bodies of PATCH /decks/{deck_id}/cards/{card_id}
UpdateCardPayloads ==
    {[qtype |-> "fillups"], [qtype |-> "mcq"], [qtype |-> "match"],
     [qtype |-> "mcq", options |-> FourOptions], [options |-> ThreeOptions],
     [qtype |-> "match", options |-> FourOptions], [options |-> FourPairs]}

\* the search and tag parameters of GET /decks
SearchInputs == {None, Some(<<"h">>)}
TagInputs == {None, Some(<<"X">>)}

GetDeck ==
    /\ last = Idle
    /\ \E current_user \in UserIds, deck_id \in CardDeckIds :
          last' = Request("get_deck", current_user, <<>>, deck_id,
                          get_deck(current_user, deck_id))
    /\ UNCHANGED <<issued, users, decks, cards, test_sessions, clock, deck_likes, deck_favorites, calls>>

UpdateDeck ==
    /\ last = Idle
    /\ \E current_user \in UserIds, deck_id \in CardDeckIds, payload \in UpdateDeckPayloads :
          LET r == update_deck(current_user, deck_id, payload)
          IN /\ decks' = r.decks
             /\ last' = Request("update_deck", current_user, <<>>, deck_id, r.resp)
    /\ UNCHANGED <<issued, users, cards, test_sessions, clock, deck_likes, deck_favorites, calls>>

DeleteDeck ==
    /\ last = Idle
    /\ \E current_user \in UserIds, deck_id \in CardDeckIds, fk_enforced \in BOOLEAN :
          LET r == delete_deck(current_user, deck_id, fk_enforced)
          IN /\ decks' = r.decks
             /\ cards' = r.cards
             /\ last' = Request("delete_deck", current_user, <<>>, deck_id, r.resp)
    /\ UNCHANGED <<issued, users, test_sessions, clock, deck_likes, deck_favorites, calls>>

\* the ids the model lets a new card take: above those of the three cards
\* the store starts with, so that no id of theirs is given out again
NewCardIds == {i \in 1..MaxCardId : \A c \in {Card1, Card2, Card3} : i > c.id}

AddCard ==
    /\ last = Idle
    /\ next_card_id \in NewCardIds
    /\ \E current_user \in UserIds, deck_id \in CardDeckIds, payload \in AddCardPayloads :
          \E r \in add_card(current_user, deck_id, payload) :
             /\ cards' = r.cards
             /\ last' = Request("add_card", current_user, <<>>, deck_id, r.resp)
    /\ UNCHANGED <<issued, users, decks, test_sessions, clock, deck_likes, deck_favorites, calls>>

ListCards ==
    /\ last = Idle
    /\ \E current_user \in UserIds, deck_id \in CardDeckIds :
          \E r \in list_cards(current_user, deck_id) :
             last' = Request("list_cards", current_user, <<>>, deck_id, r)
    /\ UNCHANGED <<issued, users, decks, cards, test_sessions, clock, deck_likes, deck_favorites, calls>>

\* the card id travels in the session_id field of the request record
GetCard ==
    /\ last = Idle
    /\ \E current_user \in UserIds, t \in CardTargets :
          \E r \in get_card(current_user, t[1], t[2]) :
             last' = Request("get_card", current_user, <<t[2]>>, t[1], r)
    /\ UNCHANGED <<issued, users, decks, cards, test_sessions, clock, deck_likes, deck_favorites, calls>>

UpdateCard ==
    /\ last = Idle
    /\ \E current_user \in UserIds, t \in CardTargets, payload \in UpdateCardPayloads :
          LET r == update_card(current_user, t[1], t[2], payload)
          IN /\ cards' = r.cards
             /\ last' = Request("update_card", current_user, <<t[2]>>, t[1], r.resp)
    /\ UNCHANGED <<issued, users, decks, test_sessions, clock, deck_likes, deck_favorites, calls>>

DeleteCard ==
    /\ last = Idle
    /\ \E current_user \in UserIds, t \in CardTargets :
          LET r == delete_card(current_user, t[1], t[2])
          IN /\ cards' = r.cards
             /\ last' = Request("delete_card", current_user, <<t[2]>>, t[1], r.resp)
    /\ UNCHANGED <<issued, users, decks, test_sessions, clock, deck_likes, deck_favorites, calls>>

\* lines 230-266: GET /decks with search and tag
ListDecksFiltered ==
    /\ last = Idle
    /\ \E current_user \in UserIds, search \in SearchInputs, tag \in TagInputs,
          page \in ListPages, size \in ListSizes :
         \E q \in order_by_created_at_desc(list_decks_filtered(current_user, search, tag)) :
            LET page_rows == offset_limit(q, page, size) IN
            last' = Request("list", current_user, <<>>, 0,
                            [status |-> 200,
                             body |-> [out |-> [i \in DOMAIN page_rows |->
                                                   DeckOut(page_rows[i])]]])
    /\ UNCHANGED <<issued, users, decks, cards, test_sessions, clock, deck_likes, deck_favorites, calls>>

\* the owner-only requests on decks and cards
NextCards ==
    \/ UpdateDeck
    \/ DeleteDeck
    \/ AddCard
    \/ UpdateCard
    \/ DeleteCard
    \/ Respond

SpecCards == Init /\ [][NextCards]_vars

\* the requests that read decks and cards, while decks change visibility
NextAccess ==
    \/ UpdateDeck
    \/ GetDeck
    \/ ListCards
    \/ GetCard
    \/ ListDecksFiltered
    \/ Respond

SpecAccess == Init /\ [][NextAccess]_vars

\* decks and cards changing under a started session
NextCascade ==
    \/ TimedStart
    \/ AddCard
    \/ DeleteCard
    \/ DeleteDeck
    \/ Respond

SpecCascade == Init /\ [][NextCascade]_vars

(***************************************************************************)
(* Login, refresh and logout (routes/auth_routes.py, auth.py).  In this    *)
(* part one step of the clock is one lifetime of a refresh token; the      *)
(* lifetime of an access token is shorter than a step.                     *)
(***************************************************************************)
\* auth.py lines 15-16, in steps of the clock
ACCESS_EXPIRE == 0
REFRESH_EXPIRE == 1

\* jwt.encode: a token is its claims and the key that signed them
Token(sub, type, exp, iat, jti, key) ==
    [sub |-> sub, type |-> type, exp |-> exp, iat |-> iat, jti |-> jti, key |-> key]

\* auth.py lines 24-28
create_access_token(data) ==
    Token(data.sub, "access", clock + ACCESS_EXPIRE, None, None, "JWT_SECRET")

\* auth.py lines 30-40; jti is the uuid4 drawn
create_refresh_token(data, jti) ==
    Token(data.sub, "refresh", clock + REFRESH_EXPIRE, Some(clock), Some(jti), "JWT_SECRET")

\* auth.py lines 42-47: the payload, or None when the signature does not
\* verify or the token has expired
decode_token(token) ==
    IF token.key # "JWT_SECRET" \/ token.exp < clock THEN None ELSE Some(token)

\* auth.py lines 21-22
verify_password(plain_password, hashed_password) == hashed_password.hash_of = plain_password

UserByEmail(email) == first({u \in users : u.email = email})

Unauthorized(detail) == HTTPException(401, detail)

\* get_current_user accepting a token of any type
get_current_user_any_type(token) ==
    LET payload == decode_token(token)
    IN IF IsNone(payload)
       THEN [resp |-> Unauthorized("Invalid access token"), user |-> None]
       ELSE LET user == UserByEmail(Val(payload).sub)
            IN IF IsNone(user)
               THEN [resp |-> Unauthorized("User not found"), user |-> None]
               ELSE [resp |-> [status |-> 200, body |-> [detail |-> ""]], user |-> user]

\* auth_routes.py lines 38-48
get_current_user(token) ==
    LET payload == decode_token(token)
    IN IF IsNone(payload) \/ Val(payload).type # "access"
       THEN [resp |-> Unauthorized("Invalid access token"), user |-> None]
       ELSE LET user == UserByEmail(Val(payload).sub)
            IN IF IsNone(user)
               THEN [resp |-> Unauthorized("User not found"), user |-> None]
               ELSE [resp |-> [status |-> 200, body |-> [detail |-> ""]], user |-> user]

\* auth_routes.py lines 66-92: the response, the users and the tokens handed
\* out after it
login(username, password, jti) ==
    LET user == UserByEmail(username)
    IN IF IsNone(user) \/ ~verify_password(password, Val(user).hashed_password)
       THEN [resp |-> Unauthorized("Invalid email or password"),
             users |-> users, issued |-> issued]
       ELSE LET access_token == create_access_token([sub |-> Val(user).email])
                refresh_token == create_refresh_token([sub |-> Val(user).email], jti)
            IN [resp |-> [status |-> 200,
                          body |-> [access_token |-> access_token,
                                    refresh_token |-> refresh_token,
                                    token_type |-> "bearer"]],
                users |-> (users \ {Val(user)})
                          \cup {[Val(user) EXCEPT !.refresh_token = Some(refresh_token)]},
                issued |-> issued \cup {access_token, refresh_token}]

\* auth_routes.py line 110: cookie, then JSON body, then query parameter
effective_refresh_of(cookie_refresh, token_data, refresh_token) ==
    IF ~IsNone(cookie_refresh) THEN cookie_refresh
    ELSE IF ~IsNone(token_data) THEN token_data
    ELSE refresh_token

\* auth_routes.py lines 96-127: the response and the tokens handed out
refresh(cookie_refresh, token_data, refresh_token) ==
    LET effective_refresh == effective_refresh_of(cookie_refresh, token_data, refresh_token)
    IN IF IsNone(effective_refresh)
       THEN [resp |-> HTTPException(400, "Missing refresh_token"), issued |-> issued]
       ELSE LET payload == decode_token(Val(effective_refresh))
            IN IF IsNone(payload) \/ Val(payload).type # "refresh"
               THEN [resp |-> Unauthorized("Invalid refresh token"), issued |-> issued]
               ELSE LET user == UserByEmail(Val(payload).sub)
                    IN IF IsNone(user)
                       THEN [resp |-> Unauthorized("User not found"), issued |-> issued]
                       ELSE IF Val(user).refresh_token # effective_refresh
                       THEN [resp |-> Unauthorized("Refresh token mismatch"),
                             issued |-> issued]
                       ELSE LET new_access == create_access_token([sub |-> Val(user).email])
                            IN [resp |-> [status |-> 200,
                                          body |-> [access_token |-> new_access,
                                                    token_type |-> "bearer",
                                                    refresh_token |-> Val(effective_refresh)]],
                                issued |-> issued \cup {new_access}]

\* auth_routes.py lines 130-148: the response and the users after it
logout(refresh_cookie) ==
    LET payload == IF IsNone(refresh_cookie) THEN None ELSE decode_token(Val(refresh_cookie))
        user == IF IsNone(payload) THEN None ELSE UserByEmail(Val(payload).sub)
        revoke == /\ ~IsNone(payload)
                  /\ Val(payload).type = "refresh"
                  /\ ~IsNone(user)
                  /\ Val(user).refresh_token = refresh_cookie
    IN [resp |-> [status |-> 200, body |-> [message |-> "Logged out"]],
        users |-> IF revoke
                  THEN (users \ {Val(user)}) \cup {[Val(user) EXCEPT !.refresh_token = None]}
                  ELSE users]

\* number of logins that succeed
MaxLogins == 2

Emails == {"u1@example.com", "u2@example.com", "nouser@example.com"}
Passwords == {"p1", "p2"}

\* a string that is no JWT
InvalidToken == Token("", "", 0, None, None, "none")

\* the tokens a client can send: those handed out, the same claims signed
\* with a key of the client's own, and a string that is no token
Presentable == issued \cup {[t EXCEPT !.key = "other"] : t \in issued} \cup {InvalidToken}

RefreshTokens == {t \in issued : t.type = "refresh"}

\* a request that carries no token
NoTokens == [cookie |-> None, body |-> None, query |-> None, bearer |-> None]

\* where a /auth/refresh request carries tokens: nowhere, in one place, or a
\* refresh token in the cookie and another in the body
RefreshRequests ==
    {NoTokens}
    \cup {[NoTokens EXCEPT !.cookie = Some(t)] : t \in Presentable}
    \cup {[NoTokens EXCEPT !.body = Some(t)] : t \in Presentable}
    \cup {[NoTokens EXCEPT !.query = Some(t)] : t \in Presentable}
    \cup {[NoTokens EXCEPT !.cookie = Some(p[1]), !.body = Some(p[2])] :
             p \in {p \in RefreshTokens \X RefreshTokens : p[1] # p[2]}}

\* an auth request being answered: the tokens it carried and its response
AuthRequest(op, tokens, r) ==
    [op |-> op, user |-> 0, session_id |-> <<>>, deck_id |-> 0,
     status |-> r.status, body |-> r.body, tokens |-> tokens]

Login ==
    /\ last = Idle
    /\ Cardinality(RefreshTokens) < MaxLogins
    /\ \E username \in Emails, password \in Passwords, jti \in Uuids :
          LET r == login(username, password, jti)
          IN /\ users' = r.users
             /\ issued' = r.issued
             /\ last' = [AuthRequest("login", NoTokens, r.resp)
                         EXCEPT !.user = IF IsNone(UserByEmail(username)) THEN 0
                                         ELSE Val(UserByEmail(username)).id]
    /\ UNCHANGED <<decks, cards, test_sessions, clock, deck_likes, deck_favorites, calls>>

Refresh ==
    /\ last = Idle
    /\ \E q \in RefreshRequests :
          LET r == refresh(q.cookie, q.body, q.query)
          IN /\ issued' = r.issued
             /\ last' = AuthRequest("refresh", q, r.resp)
    /\ UNCHANGED <<users, decks, cards, test_sessions, clock, deck_likes, deck_favorites, calls>>

Logout ==
    /\ last = Idle
    /\ \E refresh_cookie \in {None} \cup {Some(t) : t \in Presentable} :
          LET r == logout(refresh_cookie)
          IN /\ users' = r.users
             /\ last' = AuthRequest("logout", [NoTokens EXCEPT !.cookie = refresh_cookie],
                                    r.resp)
    /\ UNCHANGED <<issued, decks, cards, test_sessions, clock, deck_likes, deck_favorites, calls>>

\* a route behind Depends(get_current_user), called with a bearer token
Protected ==
    /\ last = Idle
    /\ \E token \in Presentable :
          LET r == get_current_user(token)
          IN last' = [AuthRequest("protected", [NoTokens EXCEPT !.bearer = Some(token)],
                                  r.resp)
                      EXCEPT !.user = IF IsNone(r.user) THEN 0 ELSE Val(r.user).id]
    /\ UNCHANGED <<issued, users, decks, cards, test_sessions, clock, deck_likes, deck_favorites, calls>>

NextAuth == Tick \/ Login \/ Refresh \/ Logout \/ Protected \/ Respond

SpecAuth == Init /\ [][NextAuth]_vars

(***************************************************************************)
(* Properties.                                                             *)
(***************************************************************************)
\* this step answers a request of user u
Handles(u) == last'.op # "idle" /\ last'.user = u

OwnedBy(u) == {s \in test_sessions : s.user_id = u}

\* C1: a session belongs to the user who started it.  No request of a user
\* changes, adds or removes a session record of another user; a request that
\* names a session succeeds only on a session of the caller; and stats
\* counts the caller's completed sessions and no others.
C1_SessionIsolation ==
    [][\A u \in UserIds : Handles(u) =>
          /\ \A s \in test_sessions \cup test_sessions' :
                s.user_id # u => s \in test_sessions /\ s \in test_sessions'
          /\ (last'.status = 200
               /\ last'.op \in {"submit-answer", "complete", "results", "result-summary"})
              => /\ \E s \in OwnedBy(u) : s.session_id = last'.session_id
                 /\ \A s \in test_sessions : s.session_id = last'.session_id => s.user_id = u
          /\ (last'.op = "stats" /\ last'.status = 200)
              => LET own == all({s \in OwnedBy(u) : s.completed_at # None}) IN
                 /\ last'.body.total_tests = Len(own)
                 /\ last'.body.total_questions
                       = SumSeq([i \in 1..Len(own) |-> own[i].total_cards])
                 /\ last'.body.correct_answers
                       = SumSeq([i \in 1..Len(own) |-> Val(own[i].correct_answers)])
                 /\ \A i \in 1..Len(last'.body.recent_tests) :
                       \E s \in OwnedBy(u) :
                          s.session_id = last'.body.recent_tests[i].session_id
      ]_vars

\* C1 witness: stats answered for a user with one completed session while
\* another user has a completed session too
C1_Witness ==
    /\ last.op = "stats"
    /\ last.body.total_tests = 1
    /\ \E s \in test_sessions : s.user_id # last.user /\ s.completed_at # None

\* C2 as stated: once completed_at is set, no later step changes the
\* record's completed_at, correct_answers, total_time or answer log
C2_CompletedIsTerminal ==
    [][\A s \in test_sessions : s.completed_at # None =>
          \E t \in test_sessions' :
             /\ t.session_id = s.session_id
             /\ t.completed_at = s.completed_at
             /\ t.correct_answers = s.correct_answers
             /\ t.total_time = s.total_time
             /\ t.answers_json = s.answers_json
      ]_vars

\* C2 amended: a completed session stays completed, and its completed_at,
\* correct_answers, total_time and answer log are changed by nothing but a
\* later complete call of the session's owner on that session
C2_OnlyOwnerCompleteRewrites ==
    [][\A s \in test_sessions : s.completed_at # None =>
          \E t \in test_sessions' :
             /\ t.session_id = s.session_id
             /\ t.completed_at # None
             /\ \/ /\ t.completed_at = s.completed_at
                   /\ t.correct_answers = s.correct_answers
                   /\ t.total_time = s.total_time
                   /\ t.answers_json = s.answers_json
                \/ /\ last'.op = "complete"
                   /\ last'.user = s.user_id
                   /\ last'.session_id = s.session_id
                   /\ last'.status \in {200, 500}
      ]_vars

\* C2 witness: another user's complete call was refused on a completed session
C2_Witness ==
    /\ last.op = "complete"
    /\ last.status = 403
    /\ \E s \in test_sessions : s.session_id = last.session_id /\ s.completed_at # None

\* C3 as stated: a complete call that returns an error leaves every session
\* record as it was
C3_ErrorLeavesSessions ==
    [][(last'.op = "complete" /\ last'.status # 200) => test_sessions' = test_sessions]_vars

\* the id has the legacy form user_deck_timestamp with an integer deck
ParsesAsLegacy(session_id) ==
    Len(split(session_id)) >= 3 /\ IntParses(split(session_id)[2])

LegacyDeckExists(session_id) ==
    \E d \in decks : d.id = int(split(session_id)[2])

NotInStore(session_id) == \A s \in test_sessions : s.session_id # session_id

\* C4 as stated: complete on an id that is not in the store, has the legacy
\* form and names an existing deck proceeds without a session record and
\* does not fail with 404 (nor with 400)
C4_LegacyPathCompletes ==
    (/\ last.op = "complete"
     /\ NotInStore(last.session_id)
     /\ ParsesAsLegacy(last.session_id)
     /\ LegacyDeckExists(last.session_id))
    => last.status \notin {400, 404}

\* C5 as stated: for an id that is not in the store, complete answers 400
\* when the id does not parse as user_<integer>_timestamp and 404 when it
\* parses and names no deck, and no session record is created or changed
C5_MalformedOrUnknownLegacy ==
    [][(last'.op = "complete" /\ NotInStore(last'.session_id)) =>
          /\ ~ParsesAsLegacy(last'.session_id) => last'.status = 400
          /\ (ParsesAsLegacy(last'.session_id) /\ ~LegacyDeckExists(last'.session_id))
             => last'.status = 404
          /\ test_sessions' = test_sessions
      ]_vars

\* the deck a start request names, as a set of at most one row
NamedDeck(deck_id) == {d \in decks : d.id = deck_id}

\* C6: start on a private deck answers 403 and adds no record for a caller
\* who is not the owner; for the owner, and for any caller of a public deck,
\* a deck with a card is started (the only failure left is the store
\* refusing the insert, a 500)
C6_PrivateDeckStart ==
    [][last'.op = "start" =>
          \A d \in NamedDeck(last'.deck_id) :
             /\ (d.visibility = "private" /\ d.owner_id # last'.user)
                => (last'.status = 403 /\ test_sessions' = test_sessions)
             /\ ((d.visibility = "public" \/ d.owner_id = last'.user)
                 /\ \E c \in cards : c.deck_id = d.id)
                => /\ last'.status \in {200, 500}
                   /\ last'.status = 500
                      => last'.body.detail = "Failed to create test session"
                   /\ last'.status = 200 => Cardinality(test_sessions')
                                               = Cardinality(test_sessions) + 1
      ]_vars

\* C6 witness: the owner has started the private deck
C6_Witness ==
    /\ last.op = "start"
    /\ last.status = 200
    /\ \E d \in NamedDeck(last.deck_id) : d.visibility = "private" /\ d.owner_id = last.user

\* C7: start answers 404 for a deck id no deck has and 400 for a deck the
\* caller may use that has no card, and adds no session record in either case
C7_StartNotFoundOrEmpty ==
    [][last'.op = "start" =>
          /\ NamedDeck(last'.deck_id) = {}
             => (last'.status = 404 /\ test_sessions' = test_sessions)
          /\ \A d \in NamedDeck(last'.deck_id) :
                ((d.visibility = "public" \/ d.owner_id = last'.user)
                 /\ ~\E c \in cards : c.deck_id = d.id)
                => (last'.status = 400 /\ test_sessions' = test_sessions)
      ]_vars

\* C7 witness: start was refused on the deck without cards
C7_Witness ==
    /\ last.op = "start"
    /\ last.status = 400
    /\ last.user = 1
    /\ \E d \in NamedDeck(last.deck_id) : ~\E c \in cards : c.deck_id = d.id

\* C8: the card list of a successful start is a permutation of the deck's
\* cards (as many entries as the deck has cards, each card once, nothing of
\* another deck) and no entry has an answer field
C8_StartCardsArePermutation ==
    (last.op = "start" /\ last.status = 200) =>
       LET listed == last.body.cards
           of_deck == {c \in cards : c.deck_id = last.deck_id}
       IN /\ Len(listed) = Cardinality(of_deck)
          /\ last.body.total_cards = Cardinality(of_deck)
          /\ \A c \in of_deck : \E i \in 1..Len(listed) :
                listed[i].id = c.id /\ listed[i].question = c.question
          /\ \A i \in 1..Len(listed) : \E c \in of_deck : c.id = listed[i].id
          /\ \A i, j \in 1..Len(listed) : listed[i].id = listed[j].id => i = j
          /\ \A i \in 1..Len(listed) : "answer" \notin DOMAIN listed[i]

\* C8 witness: a start returned the two cards of a deck in the other order
C8_Witness ==
    /\ last.op = "start"
    /\ last.status = 200
    /\ Len(last.body.cards) = 2
    /\ last.body.cards[1].id > last.body.cards[2].id

\* C9: a successful start adds one record and changes no other; the new
\* record's session_id is the one returned and no other record's, its user
\* is the caller, its deck the deck asked for, its total_cards the number of
\* cards of the deck, and its completion fields are all null
C9_StartAddsOneFreshRecord ==
    [][(last'.op = "start" /\ last'.status = 200) =>
          \E r \in test_sessions' :
             /\ r \notin test_sessions
             /\ test_sessions' = test_sessions \cup {r}
             /\ \A s \in test_sessions : s.session_id # r.session_id /\ s.id # r.id
             /\ r.session_id = last'.body.session_id
             /\ r.user_id = last'.user
             /\ r.deck_id = last'.deck_id
             /\ r.total_cards = Cardinality({c \in cards : c.deck_id = last'.deck_id})
             /\ r.completed_at = None
             /\ r.correct_answers = None
             /\ r.total_time = None
             /\ r.answers_json = None
      ]_vars

\* C9 witness: one user has two sessions on one deck, one of them completed
\* and the other not
C9_Witness ==
    \E s, t \in test_sessions :
       /\ s.session_id # t.session_id
       /\ s.user_id = t.user_id
       /\ s.deck_id = t.deck_id
       /\ s.completed_at # None
       /\ t.completed_at = None
       /\ last.op = "start"

\* C10: submit-answer changes no session record, deck or card, whatever it
\* answers
C10_SubmitAnswerReadOnly ==
    [][last'.op = "submit-answer" =>
          /\ test_sessions' = test_sessions
          /\ decks' = decks
          /\ cards' = cards
          /\ users' = users
      ]_vars

\* C10 witness: submit-answer judged an answer correct on a session that is
\* still not completed
C10_Witness ==
    /\ last.op = "submit-answer"
    /\ last.status = 200
    /\ last.body.is_correct
    /\ \E s \in test_sessions : s.session_id = last.session_id /\ s.completed_at = None

SessionOps == {"submit-answer", "results", "result-summary"}

\* the session the answered request names belongs to another user
OthersSession == \E s \in test_sessions : s.session_id = last.session_id /\ s.user_id # last.user

\* C11 as stated: submit-answer, results and result-summary answer 404 for
\* a session id that matches no record and 403 for one that matches a record
\* of another user, whatever the card and whether the session is completed
C11_UnknownIs404OthersIs403 ==
    last.op \in SessionOps =>
       /\ NotInStore(last.session_id) => last.status = 404
       /\ OthersSession => last.status = 403

\* C11 amended: submit-answer, results and result-summary answer 400 for
\* the empty session id, 404 for a non-empty session id that matches no
\* record and 403 for one that matches a record of another user, whatever
\* the card and whether the session is completed
C11_NonEmptyUnknownIs404OthersIs403 ==
    last.op \in SessionOps =>
       /\ Len(last.session_id) = 0 => last.status = 400
       /\ (Len(last.session_id) > 0 /\ NotInStore(last.session_id)) => last.status = 404
       /\ OthersSession => last.status = 403

\* C11 witness: results answered 403 for another user's session that is not
\* completed, where the completion check would have answered 400
C11_Witness ==
    /\ last.op = "results"
    /\ last.status = 403
    /\ \E s \in test_sessions : s.session_id = last.session_id /\ s.completed_at = None

\* trim and lowercase
normalize(text) == lower(strip(text))

\* C12: a submit-answer that is answered names an existing card, returns
\* is_correct true exactly when the submitted answer and the card's stored
\* answer are equal after trimming and lowercasing, and returns the card's
\* stored answer as correct_answer
C12_SubmitAnswerNormalizedEquality ==
    (last.op = "submit-answer" /\ last.status = 200) =>
       \E c \in cards :
          /\ c.id = last.body.card_id
          /\ last.body.is_correct <=> normalize(last.body.user_answer) = normalize(c.answer)
          /\ last.body.correct_answer = c.answer

\* C12 witness: an answer that differs from the stored answer in letter case
\* and in surrounding whitespace was judged correct
C12_Witness ==
    /\ last.op = "submit-answer"
    /\ last.status = 200
    /\ last.body.is_correct
    /\ last.body.user_answer # last.body.correct_answer
    /\ Len(strip(last.body.correct_answer)) < Len(last.body.correct_answer)

\* the number of submitted answers the caller marked correct
SuppliedCorrect(answers) == Cardinality({i \in 1..Len(answers) : answers[i].is_correct})

\* the session record of that id among the rows
RowOf(rows, session_id) == CHOOSE s \in rows : s.session_id = session_id

\* C13: in every state in which a request is taken, every complete call the
\* store accepts and that succeeds returns total_cards = the number of submitted answers,
\* correct_answers = the number of them the caller marked correct, and
\* accuracy = correct_answers / total_cards * 100 to the nearest hundredth
\* (0 for no answers), and writes that correct_answers and one log entry per
\* answer to the record; a call of the owner with no answers succeeds
C13_AggregatesFromSubmittedAnswers ==
    last = Idle =>
    \A u \in UserIds, q \in CompleteRequests :
       LET r == complete_test_session(u, q.session_id, q.answers, q.started_at, "none")
           n == Len(q.answers)
           k == SuppliedCorrect(q.answers)
       IN /\ r.resp.status = 200 =>
                /\ r.resp.body.total_cards = n
                /\ r.resp.body.correct_answers = k
                /\ n = 0 => r.resp.body.accuracy = 0
                /\ n > 0 => /\ 2 * (r.resp.body.accuracy * n - k * 10000) <= n
                            /\ 2 * (k * 10000 - r.resp.body.accuracy * n) <= n
                /\ RowOf(r.rows, q.session_id).correct_answers = Some(k)
                /\ Len(Val(RowOf(r.rows, q.session_id).answers_json)) = n
                /\ \A i \in 1..n :
                      Val(RowOf(r.rows, q.session_id).answers_json)[i].is_correct
                         = q.answers[i].is_correct
          /\ (/\ n = 0
              /\ q.started_at = None
              /\ \E s \in test_sessions : s.session_id = q.session_id /\ s.user_id = u)
             => r.resp.status = 200

\* C13 witness: a complete with three answers, two of them marked correct,
\* was answered with total_cards 3 and accuracy 66.67 on a session that was
\* started with two cards
C13_Witness ==
    /\ last.op = "complete"
    /\ last.status = 200
    /\ last.body.total_cards = 3
    /\ last.body.correct_answers = 2
    /\ last.body.accuracy = 6667
    /\ \E s \in test_sessions :
          /\ s.session_id = last.session_id
          /\ s.total_cards = 2
          /\ s.correct_answers = Some(2)

\* the sum of the answers' time_taken, an absent one counted as 0
SuppliedTime(answers) ==
    SumSeq([i \in 1..Len(answers) |->
               IF answers[i].time_taken = None THEN 0 ELSE Val(answers[i].time_taken)])

\* C14: in every state in which a request is taken, a complete call without
\* started_at that succeeds returns, and writes to the record, total_time =
\* the sum of the submitted answers' time_taken with an absent one counted
\* as 0; and a call on the caller's session in which an answer has a negative
\* time_taken, no earlier answer being refused, is answered 400 and writes
\* nothing
C14_TotalTimeIsSumOfTimeTaken ==
    last = Idle =>
    \A u \in UserIds, q \in CompleteRequests, f \in DbFaults :
       q.started_at = None =>
          LET r == complete_test_session(u, q.session_id, q.answers, q.started_at, f) IN
          /\ r.resp.status = 200 =>
                /\ r.resp.body.total_time = SuppliedTime(q.answers)
                /\ RowOf(r.rows, q.session_id).total_time = Some(SuppliedTime(q.answers))
          /\ (/\ \E s \in test_sessions : s.session_id = q.session_id /\ s.user_id = u
              /\ \E i \in 1..Len(q.answers) :
                    /\ q.answers[i].time_taken # None
                    /\ Val(q.answers[i].time_taken) < 0
                    /\ \A j \in 1..(i - 1) : answer_status(q.answers[j]) = 200)
             => (r.resp.status = 400 /\ r.rows = test_sessions)

\* C14 witness: answers with time_taken 2, 5 and none were completed with
\* total_time 7, returned and stored
C14_Witness ==
    /\ last.op = "complete"
    /\ last.status = 200
    /\ Len(last.body.answers) = 3
    /\ last.body.answers[1].time_taken = Some(2)
    /\ last.body.answers[2].time_taken = Some(5)
    /\ last.body.answers[3].time_taken = None
    /\ last.body.total_time = 7
    /\ \E s \in test_sessions : s.session_id = last.session_id /\ s.total_time = Some(7)

\* C15 as stated: results and result-summary on a session of the caller
\* answer 400 in every state before a successful complete of that session
\* and 200 in every state after one.  In terms of the record: a session's
\* completed_at is set by no step other than a complete of that session
\* answered 200, and the two reads answer 400 while completed_at is null
\* (as it is after start) and 200 once it is set
C15_ResultsOnlyAfterSuccessfulComplete ==
    [][/\ \A s \in test_sessions, t \in test_sessions' :
             (s.session_id = t.session_id /\ s.completed_at = None /\ t.completed_at # None)
             => (/\ last'.op = "complete"
                 /\ last'.status = 200
                 /\ last'.session_id = s.session_id)
       /\ last'.op \in {"results", "result-summary"} =>
             \A s \in test_sessions' :
                (s.session_id = last'.session_id /\ s.user_id = last'.user)
                => last'.status = (IF s.completed_at = None THEN 400 ELSE 200)
      ]_vars

\* a completed record is left as it is by every step but a complete call of
\* its owner on that session
CompletedRowsKept ==
    \A s \in test_sessions :
       s.completed_at # None =>
          \/ s \in test_sessions'
          \/ (last'.op = "complete" /\ last'.user = s.user_id
              /\ last'.session_id = s.session_id)

SummaryAddsUp(body) ==
    /\ body.correct_count + body.mistake_count = body.total_questions
    /\ body.mistake_count >= 0

\* C17: when a complete has succeeded, the summary of the record as written
\* has correct_count = the correct_answers complete returned; every summary
\* that can be had in a state has correct_count + mistake_count =
\* total_questions and mistake_count >= 0; result-summary answers with the
\* summary of the record; and a completed record changes only by a complete
\* call of its owner on that session
C17_SummaryCountsAddUp ==
    /\ [](/\ (last.op = "complete" /\ last.status = 200) =>
                LET r == get_test_result_summary(last.user, last.session_id) IN
                r.status = 200 /\ r.body.correct_count = last.body.correct_answers
          /\ \A u \in UserIds, sid \in Uuids :
                get_test_result_summary(u, sid).status = 200
                => SummaryAddsUp(get_test_result_summary(u, sid).body)
          /\ last.op = "result-summary" =>
                LET r == get_test_result_summary(last.user, last.session_id) IN
                last.status = r.status /\ last.body = r.body)
    /\ [][CompletedRowsKept]_vars

\* C17 witness: result-summary answered 3 questions, 2 correct, 1 mistake
C17_Witness ==
    /\ last.op = "result-summary"
    /\ last.status = 200
    /\ last.body.total_questions = 3
    /\ last.body.correct_count = 2
    /\ last.body.mistake_count = 1

\* C18 as stated: under every interleaving of concurrent complete calls on
\* one session, the completed_at, correct_answers, total_time and answer log
\* of the record all come from one and the same call: they are the four
\* values one of the calls that wrote has computed
C18_CompletionFromOneCall ==
    \A s \in test_sessions :
       s.completed_at # None =>
          \E c \in CallIds :
             /\ calls[c].pc = "done"
             /\ calls[c].session_id = s.session_id
             /\ \A col \in CompletionColumns : s[col] = assigned(calls[c].body)[col]

\* the calls that began in this step and wait to write
StartedCalls == {c \in CallIds : calls[c] = IdleCall /\ calls'[c] # IdleCall}

\* the step is a whole request of the operation: it was answered at once
AnsweredAtOnce(op) == last = Idle /\ last'.op = op /\ calls' = calls

\* C19: after any interleaving of like, unlike, favorite and unfavorite calls
\* deck_likes and deck_favorites hold at most one row of each (user, deck)
\* pair; a like of a deck the caller already likes is answered 204 at its
\* lookup and an unlike of a deck the caller does not like is answered 204 at
\* its lookup, both without a write; a like of a deck that does not exist is
\* answered 404 and adds no row.
C19_LikesAndFavoritesAreSets ==
    /\ [](/\ \A row \in BagToSet(deck_likes) : CopiesIn(row, deck_likes) = 1
          /\ \A row \in BagToSet(deck_favorites) : CopiesIn(row, deck_favorites) = 1)
    /\ [][/\ \A c \in StartedCalls :
               /\ calls'[c].pc = "insert_like"
                     => ~BagIn(JoinRow(calls'[c].user, calls'[c].deck_id), deck_likes)
               /\ calls'[c].pc = "delete_like"
                     => BagIn(JoinRow(calls'[c].user, calls'[c].deck_id), deck_likes)
          /\ AnsweredAtOnce("like") /\ ~IsNone(DeckById(last'.deck_id))
                => /\ BagIn(JoinRow(last'.user, last'.deck_id), deck_likes)
                   /\ last'.status = 204
                   /\ deck_likes' = deck_likes
          /\ AnsweredAtOnce("unlike")
                => /\ ~BagIn(JoinRow(last'.user, last'.deck_id), deck_likes)
                   /\ last'.status = 204
                   /\ deck_likes' = deck_likes
          /\ last'.op = "like" /\ last # last' /\ IsNone(DeckById(last'.deck_id))
                => /\ last'.status = 404
                   /\ deck_likes' = deck_likes]_vars

\* a like of an already liked deck has been answered 204 while another like
\* of the same pair, begun before the row existed, still waits to insert
C19_Witness ==
    /\ last.op = "like"
    /\ last.status = 204
    /\ CopiesIn(JoinRow(last.user, last.deck_id), deck_likes) = 1
    /\ \E c \in DeckCallIds :
          /\ calls[c] # IdleCall
          /\ calls[c].pc = "insert_like"
          /\ calls[c].user = last.user
          /\ calls[c].deck_id = last.deck_id

\* the number of like rows of the deck
like_count(deck_id) ==
    BagCardinality([row \in {r \in BagToSet(deck_likes) : r.deck_id = deck_id} |->
                       CopiesIn(row, deck_likes)])

\* C20: GET /decks lists the visible decks by current like count descending:
\* a deck with more like rows precedes a deck with fewer.
C20_ListingOrderedByLikeCount ==
    last.op = "list" /\ last.status = 200 =>
       \A i, j \in DOMAIN last.body.out :
          i < j => like_count(last.body.out[i].id) >= like_count(last.body.out[j].id)

\* C21: in the deck listing for user u every entry's like_count is the
\* number of like rows of the deck, liked says whether u likes it and
\* favourite says whether u has it as a favorite.
C21_ListingFlagsReflectMembership ==
    last.op = "list" /\ last.status = 200 =>
       \A i \in DOMAIN last.body.out :
          LET d == last.body.out[i] IN
          /\ d.like_count = like_count(d.id)
          /\ d.liked = BagIn(JoinRow(last.user, d.id), deck_likes)
          /\ d.favourite = BagIn(JoinRow(last.user, d.id), deck_favorites)

\* the caller may read the deck's cards (get_card, decks_routes.py lines 533-535)
MaySeeDeck(deck_id, current_user) ==
    \E d \in decks : d.id = deck_id /\ (d.owner_id = current_user \/ d.visibility = "public")

\* C28: a successful submit-answer on session s returns correct_answer only
\* for a card of the deck of s, and never for a card of a private deck the
\* caller does not own.
C28_SubmitAnswerKeyOnlyForSessionDeck ==
    last.op = "submit-answer" /\ last.status = 200 =>
       \E s \in test_sessions, card \in cards :
          /\ s.session_id = last.session_id
          /\ card.id = last.body.card_id
          /\ card.deck_id = s.deck_id
          /\ MaySeeDeck(card.deck_id, last.user)

\* C29: every completed session record has 0 <= correct_answers <=
\* total_cards, so the accuracies stats reports lie between 0 and 100, and
\* the total_cards stats reports for a session is the total_cards results
\* reports for it.
C29_CorrectWithinSnapshot ==
    /\ \A s \in test_sessions :
          ~IsNone(s.completed_at) =>
             /\ 0 <= Val(s.correct_answers)
             /\ Val(s.correct_answers) <= s.total_cards
    /\ last.op = "stats" /\ last.status = 200 =>
          /\ 0 <= last.body.accuracy
          /\ last.body.accuracy <= accuracy_x100(1, 1)
          /\ \A i \in DOMAIN last.body.recent_tests :
                LET t == last.body.recent_tests[i]
                    r == get_test_results(last.user, t.session_id)
                IN /\ 0 <= t.accuracy
                   /\ t.accuracy <= accuracy_x100(1, 1)
                   /\ r.status = 200 => r.body.total_cards = t.total_cards

\* C26: the answers results returns for a session are the records complete
\* stored for it, field by field (card_id, user_answer, is_correct,
\* time_taken, options) and in the same order.
C26_AnswerLogRoundTrips ==
    last.op = "results" /\ last.status = 200 =>
       \A s \in test_sessions :
          s.session_id = last.session_id =>
             last.body.answers = (IF IsNone(s.answers_json) THEN <<>> ELSE Val(s.answers_json))

\* C30: the total_time complete persists is never negative, with or without
\* a started_at in the request.
C30_TotalTimeNonNegative ==
    \A s \in test_sessions : ~IsNone(s.total_time) => Val(s.total_time) >= 0

\* the deck is private and owned by someone other than the caller
PrivateOfOther(deck_id, current_user) ==
    \E d \in decks : d.id = deck_id /\ d.visibility = "private" /\ d.owner_id # current_user

\* C22: for every user and all search, tag and page parameters the deck
\* listing holds only decks that are public or owned by the caller, and
\* get_deck, list_cards and get_card on a private deck of another user answer
\* 403, also after update_deck has made the deck private.
C22_PrivateDecksNotDisclosed ==
    /\ last.op = "list" /\ last.status = 200 =>
          \A i \in DOMAIN last.body.out : MaySeeDeck(last.body.out[i].id, last.user)
    /\ last.op \in {"get_deck", "list_cards", "get_card"}
          /\ PrivateOfOther(last.deck_id, last.user) => last.status = 403

\* the requests that change a deck or its cards
MutatingOps == {"update_deck", "delete_deck", "add_card", "update_card", "delete_card"}

\* this step answers a request of a user on a deck that exists and that
\* the user does not own
AnswersNonOwner ==
    /\ last = Idle
    /\ last'.op \in MutatingOps
    /\ \E d \in decks : d.id = last'.deck_id /\ d.owner_id # last'.user

\* C23 as stated: a user who does not own the deck gets 403 from add_card and
\* 404 from update_deck, delete_deck, update_card and delete_card, whatever
\* the body of the request, and no deck or card changes; no step changes the
\* owner_id of a deck.
C23_NonOwnerGets403Or404 ==
    [][/\ AnswersNonOwner =>
             /\ last'.status = (IF last'.op = "add_card" THEN 403 ELSE 404)
             /\ decks' = decks
             /\ cards' = cards
       /\ \A d \in decks, e \in decks' : d.id = e.id => d.owner_id = e.owner_id]_vars

AnsweredNonOwnerIsRefused ==
    AnswersNonOwner =>
       /\ last'.status \in {403, 404, 422}
       /\ last'.status # 422 => last'.status = (IF last'.op = "add_card" THEN 403 ELSE 404)
       /\ decks' = decks
       /\ cards' = cards

\* C23, amended: update_deck, delete_deck, add_card, update_card and
\* delete_card called by a user who does not own the deck are answered with
\* an error, 422 when the body fails validation and otherwise 403 for
\* add_card and 404 for the others, and leave every deck and card as it
\* was, whether the deck is public or private; and no step changes the
\* owner_id of a deck.
C23_OnlyOwnerMutates ==
    [][/\ AnsweredNonOwnerIsRefused
       /\ \A d \in decks, e \in decks' : d.id = e.id => d.owner_id = e.owner_id]_vars

\* user 2 has been refused an update of a card of the private deck of user 1
C23_Witness ==
    /\ last.op = "update_card"
    /\ last.user = 2
    /\ last.status = 404
    /\ \E d \in decks : d.id = last.deck_id /\ d.owner_id = 1 /\ d.visibility = "private"
    /\ \E c \in cards : c.deck_id = last.deck_id /\ <<c.id>> = last.session_id

\* the payload of the card has the shape of its type
ShapeMatchesType(card) ==
    IF card.qtype = "mcq"
    THEN ~IsNone(card.options_json) /\ mcq_options_ok(Val(card.options_json))
    ELSE IF card.qtype = "match"
    THEN ~IsNone(card.options_json) /\ match_options_ok(Val(card.options_json))
    ELSE IsNone(card.options_json)

\* C24: after any sequence of add_card and update_card calls every stored
\* card's payload has the shape of its type: an mcq card holds at least 4
\* non-empty option strings, a match card exactly 4 {left, right} pairs and a
\* fillups card no payload.
C24_PayloadShapeMatchesType == \A card \in cards : ShapeMatchesType(card)

\* C27: after a successful delete_deck of deck d by its owner no card of d
\* remains, while every session record, those of d included, is as it was;
\* and add_card and delete_card leave every session record, so also its
\* total_cards, as it was.
C27_CascadeToCardsNotSessions ==
    [][/\ last = Idle /\ last'.op = "delete_deck" /\ last'.status = 204
             => /\ \A c \in cards' : c.deck_id # last'.deck_id
                /\ test_sessions' = test_sessions
       /\ last = Idle /\ last'.op \in {"add_card", "delete_card"}
             => test_sessions' = test_sessions]_vars

\* a deck has just been deleted under a session that was started on it
C27_Witness ==
    /\ last.op = "delete_deck"
    /\ last.status = 204
    /\ \E s \in test_sessions : s.deck_id = last.deck_id
    /\ \A d \in decks : d.id # last.deck_id

\* the token a /auth/refresh request being answered presented
Presented == effective_refresh_of(last.tokens.cookie, last.tokens.body, last.tokens.query)

\* /auth/refresh would answer 200 to the token
Accepted(t) == refresh(None, Some(t), None).resp.status = 200

\* the token is a refresh token of the user signed with the server's key
IsRefreshTokenOf(t, u) == t.key = "JWT_SECRET" /\ t.type = "refresh" /\ t.sub = u.email

\* a refresh succeeds only on the stored, signed, refresh-type token
RefreshOnlyOnStored ==
    last.op = "refresh" /\ last.status = 200
        => /\ ~IsNone(Presented)
           /\ \E u \in users : /\ IsRefreshTokenOf(Val(Presented), u)
                               /\ u.refresh_token = Presented

\* at most one of the tokens a client can send is accepted for a user
AtMostOneAccepted ==
    \A u \in users : Cardinality({t \in Presentable : t.sub = u.email /\ Accepted(t)}) <= 1

\* after a login the stored token is the one the login returned
LoginReplacesStored ==
    last.op = "login" /\ last.status = 200
        => \E u \in users : /\ u.id = last.user
                            /\ u.refresh_token = Some(last.body.refresh_token)

\* a refresh-type token is refused as a bearer token
RefreshTokenIsNoAccessToken ==
    last.op = "protected" /\ Val(last.tokens.bearer).type = "refresh" => last.status = 401

\* only a login stores a token
OnlyLoginStores ==
    \A v \in users' : v \notin users /\ ~IsNone(v.refresh_token)
                          => last'.op = "login" /\ last'.status = 200

====
